---------------------------- MODULE Spec2Model ----------------------------
(***************************************************************************)
(* Model of the metrics collector: the collection cycle (collectMetrics,   *)
(* processAccount, updateAccountGlobalMetric), the Google Sheets adapter   *)
(* (upsert of video rows, stamping of lastChecked, window aggregation,     *)
(* upsert of the global-metric fact) and the two triggers of a cycle.      *)
(*                                                                         *)
(* Every `await` of an external call (Sheets API, Apify) is a scheduling   *)
(* point of the Node.js event loop: the code between two awaits runs       *)
(* atomically, so there is one action per resolved external call.  An      *)
(* external call either succeeds or rejects; rejections are drawn          *)
(* nondeterministically, at most MaxFailures of them per behaviour.        *)
(***************************************************************************)
EXTENDS Integers, Sequences, FiniteSets, TLC

(***************************************************************************)
(* Bounds of the model.                                                    *)
(***************************************************************************)
MaxCycles == 2      \* collection cycles started in one behaviour
MaxFailures == 1    \* rejected external calls in one behaviour
MaxDay == 1         \* last calendar day the clock reaches
MaxCyclesWithRecompute == 1   \* cycles in a behaviour that calls updateGlobalMetrics

(***************************************************************************)
(* Time.  A JavaScript Date is a millisecond count; it is kept here as a   *)
(* calendar day number and the milliseconds into that day (the process     *)
(* time zone is taken to be UTC), so that day arithmetic stays within      *)
(* TLC's integers.                                                         *)
(***************************************************************************)
MsPerDay == 24 * 60 * 60 * 1000
At(d, m) == [day |-> d, ms |-> m]
NoDate == At(-1000, -1)      \* an absent value: undefined, null, an empty cell
InvalidDate == At(-1000, -2) \* a Date whose time value is NaN: new Date('soon')
HasDate(t) == t # NoDate                       \* a Date object, valid or not, is truthy
IsDate(t) == t # NoDate /\ t # InvalidDate     \* a Date with a time value
DiffMs(a, b) == (a.day - b.day) * MsPerDay + (a.ms - b.ms)   \* a.getTime() - b.getTime()
\* a < b and a <= b; a comparison with NaN is false
Before(a, b) ==
  IsDate(a) /\ IsDate(b) /\ (a.day < b.day \/ (a.day = b.day /\ a.ms < b.ms))
NotAfter(a, b) == IsDate(a) /\ IsDate(b) /\ (a = b \/ Before(a, b))
\* setHours(0, 0, 0, 0); an Invalid Date stays one
StartOfDay(t) == IF ~IsDate(t) THEN t ELSE At(t.day, 0)
EndOfDayNotWidened(t) == t                    \* variant: the bound keeps its time of day
\* setHours(23, 59, 59, 999)
EndOfDay(t) == IF ~IsDate(t) THEN t ELSE At(t.day, MsPerDay - 1)

(***************************************************************************)
(* Strings.  TLC evaluates Len, SubSeq and \o on strings; the JavaScript   *)
(* string methods the matcher uses are built from them.  A TLC string      *)
(* holds characters up to U+00FF, one per position.  The Cyrillic letters  *)
(* that the patterns of the article extractor name are written as the      *)
(* control characters U+0080..U+0093, which no text holds otherwise; other *)
(* characters above U+00FF are not carried.  toLowerCase maps the letters  *)
(* A..Z, the Latin-1 capitals and the Cyrillic capitals to their small     *)
(* letters and leaves every other character alone, as                      *)
(* String.prototype.toLowerCase does.                                      *)
(***************************************************************************)
UpperChars == "ABCDEFGHIJKLMNOPQRSTUVWXYZ"
LowerChars == "abcdefghijklmnopqrstuvwxyz"
UpperLatin1 == "ÀÁÂÃÄÅÆÇÈÉÊËÌÍÎÏÐÑÒÓÔÕÖØÙÚÛÜÝÞ"
LowerLatin1 == "àáâãäåæçèéêëìíîïðñòóôõöøùúûüýþ"
\* The letters а р т и к л ь у о д and А Р Т И К Л Ь У О Д, in this order.
CyrillicLower == ""
CyrillicUpper == ""
\* The Latin letter each of them is written with in Cyrillic(word).
TranslitLower == "artikljuod"
TranslitUpper == "ARTIKLJUOD"
CharAt(s, i) == SubSeq(s, i, i)
CyrillicOf == [c \in {CharAt(TranslitLower \o TranslitUpper, k) : k \in 1..20} |->
                 CharAt(CyrillicLower \o CyrillicUpper,
                        CHOOSE k \in 1..20 : CharAt(TranslitLower \o TranslitUpper, k) = c)]
\* The Cyrillic word given by its transliteration: Cyrillic("kod") is код.
RECURSIVE Cyrillic(_)
Cyrillic(word) ==
  IF Len(word) = 0 THEN ""
  ELSE (IF CharAt(word, 1) \in DOMAIN CyrillicOf THEN CyrillicOf[CharAt(word, 1)]
        ELSE CharAt(word, 1)) \o Cyrillic(SubSeq(word, 2, Len(word)))
AllUpper == UpperChars \o UpperLatin1 \o CyrillicUpper
AllLower == LowerChars \o LowerLatin1 \o CyrillicLower
LowerOf == [c \in {CharAt(AllUpper, k) : k \in 1..Len(AllUpper)} |->
              CharAt(AllLower, CHOOSE k \in 1..Len(AllUpper) : CharAt(AllUpper, k) = c)]
LowerChar(c) == IF c \in DOMAIN LowerOf THEN LowerOf[c] ELSE c
RECURSIVE toLowerCase(_)
toLowerCase(s) == IF Len(s) = 0 THEN ""
                  ELSE LowerChar(CharAt(s, 1)) \o toLowerCase(SubSeq(s, 2, Len(s)))
includes(s, t) == \E i \in 1..(Len(s) - Len(t) + 1) : SubSeq(s, i, i + Len(t) - 1) = t
\* Position of the first occurrence of the one-character string c in s, 0 if none.
IndexOfChar(s, c) == IF \E i \in 1..Len(s) : CharAt(s, i) = c
                     THEN CHOOSE i \in 1..Len(s) :
                            CharAt(s, i) = c /\ \A j \in 1..(i - 1) : CharAt(s, j) # c
                     ELSE 0
\* The accountUrl of an Accounts row that ends before column B: row[1] is
\* undefined.  No cell holds this text.
Undefined == "<undefined>"
\* s.split('@')[1]?.split('/')[0]: the text between the first '@' and the next
\* '@' or '/', "" standing for undefined (no '@' in s).
UsernameToken(s) ==
  LET at == IndexOfChar(s, "@")
      rest == SubSeq(s, at + 1, Len(s))
      stopAt == IndexOfChar(rest, "@")
      seg == IF stopAt = 0 THEN rest ELSE SubSeq(rest, 1, stopAt - 1)
      slash == IndexOfChar(seg, "/")
  IN IF at = 0 THEN "" ELSE IF slash = 0 THEN seg ELSE SubSeq(seg, 1, slash - 1)

(***************************************************************************)
(* Configuration (config/configuration.ts).                                *)
(***************************************************************************)
\* scheduler.checkIntervalDays, CHECK_INTERVAL_DAYS || '3': the interval the collector
\* is constructed with.
ConfiguredCheckIntervalDays == 3

(***************************************************************************)
(* The spreadsheet.  A sheet is the sequence of its rows, row 1 being the  *)
(* header row, so that a sequence index is the row number of A1 notation.  *)
(***************************************************************************)
SheetNames == {"Metrics TikTok", "Metrics YouTube", "Metrics YouTube-Shorts",
               "Metrics VK", "Metrics Pinterest", "Metrics Instagram"}
getSheetNameForPlatform(platform) ==
  CASE platform = "tiktok" -> "Metrics TikTok"
    [] platform = "youtube" -> "Metrics YouTube"
    [] platform = "youtube-shorts" -> "Metrics YouTube-Shorts"
    [] platform = "vk" -> "Metrics VK"
    [] platform = "pinterest" -> "Metrics Pinterest"
    [] platform = "instagram" -> "Metrics Instagram"
    [] OTHER -> "Metrics"
MetricsHeader == [id |-> "ID", account |-> "Account"]
AccountsHeader == [platform |-> "Platform", accountUrl |-> "Account URL"]
FactsHeader == [platform |-> "Platform", accountUrl |-> "Account URL", kind |-> "header"]

\* The tracked accounts the operator has entered in the Accounts sheet.
AccountRows == <<
  [platform |-> "tiktok", accountUrl |-> "https://www.tiktok.com/@shopbrand",
   accountName |-> "shopbrand", lastChecked |-> NoDate,
   dateFrom |-> NoDate, dateTo |-> NoDate],
  [platform |-> "vk", accountUrl |-> "https://vkvideo.ru/@brandvk",
   accountName |-> "", lastChecked |-> NoDate,
   dateFrom |-> At(0, 0), dateTo |-> At(-3, 0)] >>

(***************************************************************************)
(* The scrape source.  parseAccount returns the normalized videos of the   *)
(* account; what the platform holds at the time of the call is a choice    *)
(* among Batches.  collectedAt/lastUpdated are stamped with the wall clock *)
(* of the normalization.                                                   *)
(***************************************************************************)
V1 == [id |-> "tiktok-SHO-WB204512", platform |-> "tiktok",
       accountUrl |-> "https://www.tiktok.com/@shopbrand", accountName |-> "shopbrand",
       videoUrl |-> "https://www.tiktok.com/@shopbrand/video/v1",
       title |-> "Check out WB204512!", postDate |-> At(0, 0),
       views |-> 10, likes |-> 3, comments |-> 2, shares |-> 1, article |-> "WB204512"]
V2 == [id |-> "tiktok-SHO-WB123456", platform |-> "tiktok",
       accountUrl |-> "https://www.tiktok.com/@shopbrand", accountName |-> "shopbrand",
       videoUrl |-> "https://www.tiktok.com/@shopbrand/video/v2",
       title |-> "Article: WB123456", postDate |-> At(-40, 5000),
       views |-> 20, likes |-> 5, comments |-> 0, shares |-> 4, article |-> "WB123456"]
W1 == [id |-> "vk-BRA-99999999", platform |-> "vk",
       accountUrl |-> "https://vkvideo.ru/@brandvk", accountName |-> "brandvk",
       videoUrl |-> "https://vkvideo.ru/@brandvk/video-1_2",
       title |-> "#99999999", postDate |-> At(-1, 7000),
       views |-> 7, likes |-> 1, comments |-> 1, shares |-> 0, article |-> "99999999"]
\* A video of an account posted later; the scrape gives no createTime for it, so
\* its postDate is an Invalid Date (apify-parser.service.ts 73).
N1 == [id |-> "tiktok-NEW-WB777777", platform |-> "tiktok",
       accountUrl |-> "https://www.tiktok.com/@newshop", accountName |-> "newshop",
       videoUrl |-> "https://www.tiktok.com/@newshop/video/n1",
       title |-> "New in: WB777777", postDate |-> InvalidDate,
       views |-> 40, likes |-> 9, comments |-> 3, shares |-> 2, article |-> "WB777777"]
Batches(accountUrl) ==
  IF accountUrl = "https://www.tiktok.com/@shopbrand" THEN {<<V1>>, <<V2>>, <<V1, V2>>}
  ELSE IF accountUrl = "https://vkvideo.ru/@brandvk" THEN {<<>>, <<W1>>}
  ELSE IF accountUrl = "https://www.tiktok.com/@newshop" THEN {<<N1>>}
  ELSE {<<>>}
Normalized(batch, now) ==
  [i \in 1..Len(batch) |->
     [id |-> batch[i].id, platform |-> batch[i].platform,
      accountUrl |-> batch[i].accountUrl, accountName |-> batch[i].accountName,
      videoUrl |-> batch[i].videoUrl, title |-> batch[i].title,
      postDate |-> batch[i].postDate, views |-> batch[i].views,
      likes |-> batch[i].likes, comments |-> batch[i].comments,
      shares |-> batch[i].shares, article |-> batch[i].article,
      lastUpdated |-> now]]

(***************************************************************************)
(* utils/date-parser.ts.  Calendar days are numbered from 2024-01-01.      *)
(***************************************************************************)
Digits == "0123456789"
IsDigit(c) == \E k \in 1..10 : CharAt(Digits, k) = c
DigitVal(c) == (CHOOSE k \in 1..10 : CharAt(Digits, k) = c) - 1
AllDigits(s) == Len(s) > 0 /\ \A i \in 1..Len(s) : IsDigit(CharAt(s, i))
RECURSIVE parseInt10(_)
parseInt10(s) == IF Len(s) = 0 THEN 0
                 ELSE parseInt10(SubSeq(s, 1, Len(s) - 1)) * 10 + DigitVal(CharAt(s, Len(s)))
\* White space and line terminators, as far as the strings here carry them.
\* WhiteSpace and LineTerminator of ECMAScript up to U+00FF: space, tab, line
\* feed, vertical tab, form feed, carriage return and the no-break space.
WhiteSpace == {" ", "\t", "\n", "", "\f", "\r", " "}       \* \s
RECURSIVE trim(_)
trim(s) == IF Len(s) > 0 /\ CharAt(s, 1) \in WhiteSpace THEN trim(SubSeq(s, 2, Len(s)))
           ELSE IF Len(s) > 0 /\ CharAt(s, Len(s)) \in WhiteSpace
                THEN trim(SubSeq(s, 1, Len(s) - 1))
           ELSE s
EpochYear == 2024
IsLeap(y) == (y % 4 = 0 /\ y % 100 # 0) \/ y % 400 = 0
DaysInMonth(y, m) == IF m = 2 THEN (IF IsLeap(y) THEN 29 ELSE 28)
                     ELSE IF m \in {4, 6, 9, 11} THEN 30 ELSE 31
RECURSIVE DaysBeforeMonth(_, _)
DaysBeforeMonth(y, m) == IF m <= 1 THEN 0
                         ELSE DaysBeforeMonth(y, m - 1) + DaysInMonth(y, m - 1)
\* Leap years among the years 1..y, and the days from 1 January of EpochYear to
\* 1 January of year y (negative before the epoch year).
LeapYearsThrough(y) == (y \div 4) - (y \div 100) + (y \div 400)
DaysBeforeYear(y) == (y - EpochYear) * 365
                       + LeapYearsThrough(y - 1) - LeapYearsThrough(EpochYear - 1)
\* new Date(year, month, day).getFullYear(): a year of 0..99 stands for 1900 + year.
dateYear(year) == IF year \in 0..99 THEN 1900 + year ELSE year
\* Calendar days are numbered from 1 January of EpochYear, which is day EpochDay
\* after 1970-01-01.  A Date holds a time of at most 8.64e15 ms from 1970-01-01 on
\* either side, that is, of the days -MaxDateDays..MaxDateDays; a time beyond is
\* NaN, and the Date an Invalid Date.
EpochDay == -DaysBeforeYear(1970)
MaxDateDays == 100000000
InDateRange(day) == -MaxDateDays <= EpochDay + day /\ EpochDay + day <= MaxDateDays
\* setDate(getDate() - n); setHours(0, 0, 0, 0)
DaysAgo(t, n) == IF ~IsDate(t) THEN t
                 ELSE IF InDateRange(t.day - n) THEN At(t.day - n, 0)
                 ELSE InvalidDate
\* parseInt(digits, 10) days before the clock.  A count of ten digits or more is
\* beyond the range of a Date whatever the clock is.
RECURSIVE dropZeros(_)
dropZeros(digits) ==
  IF Len(digits) > 1 /\ CharAt(digits, 1) = "0" THEN dropZeros(SubSeq(digits, 2, Len(digits)))
  ELSE digits
relativeDate(digits, now) ==
  IF Len(digits) > 9 THEN InvalidDate ELSE DaysAgo(now, parseInt10(digits))
parseDate(dateString, now) ==
  LET trimmed == trim(dateString)
      n == Len(trimmed)
      relative == n >= 2 /\ CharAt(trimmed, n) \in {"d", "D"}
                    /\ AllDigits(SubSeq(trimmed, 1, n - 1))
      absolute == n = 10 /\ AllDigits(SubSeq(trimmed, 1, 4)) /\ CharAt(trimmed, 5) = "-"
                    /\ AllDigits(SubSeq(trimmed, 6, 7)) /\ CharAt(trimmed, 8) = "-"
                    /\ AllDigits(SubSeq(trimmed, 9, 10))
      year == parseInt10(SubSeq(trimmed, 1, 4))
      month == parseInt10(SubSeq(trimmed, 6, 7))
      day == parseInt10(SubSeq(trimmed, 9, 10))
  IN IF n = 0 THEN NoDate
     ELSE IF relative THEN relativeDate(dropZeros(SubSeq(trimmed, 1, n - 1)), now)
     ELSE IF absolute /\ month \in 1..12 /\ day \in 1..DaysInMonth(year, month)
                      /\ dateYear(year) = year
          THEN At(DaysBeforeYear(year) + DaysBeforeMonth(year, month) + day - 1, 0)
     ELSE NoDate

(***************************************************************************)
(* utils/article-extractor.ts.  The regular expressions are matched as the *)
(* JavaScript engine matches them: from left to right, the leftmost match  *)
(* first, the next search starting where the last match ended.             *)
(***************************************************************************)
UpperOf == [c \in {CharAt(AllLower, k) : k \in 1..Len(AllLower)} |->
              CharAt(AllUpper, CHOOSE k \in 1..Len(AllLower) : CharAt(AllLower, k) = c)]
\* toUpperCase turns the sharp s into two letters; the capitals of U+00B5 and
\* U+00FF lie above U+00FF and no text of the model holds those two letters.
UpperChar(c) == IF c \in DOMAIN UpperOf THEN UpperOf[c] ELSE IF c = "ß" THEN "SS" ELSE c
RECURSIVE toUpperCase(_)
toUpperCase(s) == IF Len(s) = 0 THEN ""
                  ELSE UpperChar(CharAt(s, 1)) \o toUpperCase(SubSeq(s, 2, Len(s)))
AsciiUpper == {CharAt(UpperChars, k) : k \in 1..Len(UpperChars)}
AsciiLower == {CharAt(LowerChars, k) : k \in 1..Len(LowerChars)}
IsUpper(c) == c \in AsciiUpper                                   \* [A-Z]
IsLetter(c) == c \in AsciiUpper \/ c \in AsciiLower
IsWordChar(c) == IsLetter(c) \/ IsDigit(c) \/ c = "_"            \* \w
InClass(c, class) ==
  CASE class = "alnum" -> IsLetter(c) \/ IsDigit(c)              \* [A-Z0-9] with flag i
    [] class = "upper" -> IsUpper(c)                             \* [A-Z]
    [] class = "digit" -> IsDigit(c)                             \* [0-9]
    [] class = "hex" -> IsDigit(c) \/ LowerChar(c) \in {"a", "b", "c", "d", "e", "f"}
    [] class = "sep" -> c = ":" \/ c \in WhiteSpace              \* [:\s]
    [] class = "space" -> c \in WhiteSpace                        \* \s
\* The last position of the longest run of class characters that starts at i
\* (i - 1 when there is none).
RECURSIVE RunEnd(_, _, _)
RunEnd(s, i, class) ==
  IF i <= Len(s) /\ InClass(CharAt(s, i), class) THEN RunEnd(s, i + 1, class) ELSE i - 1
\* \b between positions i - 1 and i.
Boundary(s, i) ==
  (i > 1 /\ IsWordChar(CharAt(s, i - 1))) # (i <= Len(s) /\ IsWordChar(CharAt(s, i)))
\* The word at position i under flag i: letters match whatever their case.
StartsWithCI(s, i, word) ==
  /\ i + Len(word) - 1 <= Len(s)
  /\ toLowerCase(SubSeq(s, i, i + Len(word) - 1)) = toLowerCase(word)
\* text.replace(/\s+/g, ' ').trim(): what position i of the text becomes, and the
\* text put together from its halves.
squeezeAt(s, i) ==
  IF CharAt(s, i) \notin WhiteSpace THEN CharAt(s, i)
  ELSE IF i > 1 /\ CharAt(s, i - 1) \in WhiteSpace THEN ""
  ELSE " "
RECURSIVE squeezeBetween(_, _, _)
squeezeBetween(s, from, to) ==
  IF from > to THEN ""
  ELSE IF from = to THEN squeezeAt(s, from)
  ELSE squeezeBetween(s, from, (from + to) \div 2)
         \o squeezeBetween(s, (from + to) \div 2 + 1, to)
squeeze(s) == squeezeBetween(s, 1, Len(s))
cleanText(text) == trim(squeeze(text))

\* A match of a pattern at position i: where it ends and its group 1; end 0: none.
\* Each operator hands the runs it has measured on to the next as arguments.
NoMatch == [end |-> 0, value |-> ""]
IsMatchAt(m) == m.end # 0
OrElseMatch(m, other) == IF IsMatchAt(m) THEN m ELSE other
\* (?:артикаль|артикул|арт\.?|код|article|art|sku): the alternatives in the order
\* in which they are tried, арт\.? being арт. and then арт.
LabelWords == <<Cyrillic("artikalj"), Cyrillic("artikul"), Cyrillic("art."), Cyrillic("art"),
                Cyrillic("kod"), "article", "art", "sku">>
\* (?:ART|SKU|WB|WW|WWW|WEWE|Артикул|АРТИКУЛ)
PrefixWords == <<"ART", "SKU", "WB", "WW", "WWW", "WEWE",
                 Cyrillic("Artikul"), Cyrillic("ARTIKUL")>>
\* Group 1 is s[from..to], the match ends at matchEnd; none if the group is too short
\* or ok does not hold.
Group(s, from, to, atLeast, matchEnd, ok) ==
  IF to - from + 1 >= atLeast /\ ok THEN [end |-> matchEnd, value |-> SubSeq(s, from, to)]
  ELSE NoMatch
\* /(?:артикаль|артикул|арт\.?|код|article|art|sku)[:\s]+([A-Z0-9]+)/gi
LabeledCode(s, from, sepEnd) ==
  IF sepEnd >= from THEN Group(s, sepEnd + 1, RunEnd(s, sepEnd + 1, "alnum"), 1,
                               RunEnd(s, sepEnd + 1, "alnum"), TRUE)
  ELSE NoMatch
LabeledWith(s, i, word) ==
  IF StartsWithCI(s, i, word)
  THEN LabeledCode(s, i + Len(word), RunEnd(s, i + Len(word), "sep"))
  ELSE NoMatch
RECURSIVE LabeledFrom(_, _, _)
LabeledFrom(s, i, k) ==
  IF k > Len(LabelWords) THEN NoMatch
  ELSE OrElseMatch(LabeledWith(s, i, LabelWords[k]), LabeledFrom(s, i, k + 1))
LabeledAt(s, i) == LabeledFrom(s, i, 1)
\* /\b((?:ART|SKU|WB|WW|WWW|WEWE|Артикул|АРТИКУЛ)-[A-Z0-9]+)\b/gi
PrefixedCode(s, i, dash, codeEnd) ==
  Group(s, i, codeEnd, dash - i + 2, codeEnd, Boundary(s, codeEnd + 1))
PrefixedWith(s, i, word) ==
  IF /\ StartsWithCI(s, i, word)
     /\ i + Len(word) <= Len(s)
     /\ CharAt(s, i + Len(word)) = "-"
  THEN PrefixedCode(s, i, i + Len(word), RunEnd(s, i + Len(word) + 1, "alnum"))
  ELSE NoMatch
RECURSIVE PrefixedFrom(_, _, _)
PrefixedFrom(s, i, k) ==
  IF k > Len(PrefixWords) THEN NoMatch
  ELSE OrElseMatch(PrefixedWith(s, i, PrefixWords[k]), PrefixedFrom(s, i, k + 1))
PrefixedAt(s, i) == IF Boundary(s, i) THEN PrefixedFrom(s, i, 1) ELSE NoMatch
\* /\b([A-Z]{2,4}[0-9]{4,})\b/g
LettersDigits(s, i, lettersEnd, digitsEnd) ==
  Group(s, i, digitsEnd, 1, digitsEnd,
        /\ lettersEnd - i + 1 \in 2..4
        /\ digitsEnd - lettersEnd >= 4
        /\ Boundary(s, digitsEnd + 1))
LettersThenDigits(s, i, lettersEnd) ==
  LettersDigits(s, i, lettersEnd, RunEnd(s, lettersEnd + 1, "digit"))
LettersDigitsAt(s, i) ==
  IF Boundary(s, i) THEN LettersThenDigits(s, i, RunEnd(s, i, "upper")) ELSE NoMatch
\* /\(([A-Z0-9]{4,})\)/gi
Bracketed(s, i, codeEnd) ==
  Group(s, i + 1, codeEnd, 4, codeEnd + 1,
        codeEnd + 1 <= Len(s) /\ CharAt(s, codeEnd + 1) = ")")
BracketedAt(s, i) ==
  IF CharAt(s, i) = "(" THEN Bracketed(s, i, RunEnd(s, i + 1, "alnum")) ELSE NoMatch
\* /\b([0-9]{6,})\b/g
Numeric(s, i, digitsEnd) == Group(s, i, digitsEnd, 6, digitsEnd, Boundary(s, digitsEnd + 1))
NumericAt(s, i) == IF Boundary(s, i) THEN Numeric(s, i, RunEnd(s, i, "digit")) ELSE NoMatch
\* /#([A-Z0-9]{4,})/gi
Hashtag(s, i, codeEnd) == Group(s, i + 1, codeEnd, 4, codeEnd, TRUE)
HashtagAt(s, i) ==
  IF CharAt(s, i) = "#" THEN Hashtag(s, i, RunEnd(s, i + 1, "alnum")) ELSE NoMatch
MatchAt(pattern, s, i) ==
  CASE pattern = 1 -> LabeledAt(s, i)
    [] pattern = 2 -> PrefixedAt(s, i)
    [] pattern = 3 -> LettersDigitsAt(s, i)
    [] pattern = 4 -> BracketedAt(s, i)
    [] pattern = 5 -> NumericAt(s, i)
    [] pattern = 6 -> HashtagAt(s, i)
\* cleanText.matchAll(pattern): group 1 of each match, from position i on: the
\* leftmost match first, then the matches behind it.
RECURSIVE matchAll(_, _, _)
matchOn(pattern, s, m) == <<m.value>> \o matchAll(pattern, s, m.end + 1)
matchLeftmost(pattern, s, starts) ==
  IF starts = {} THEN <<>>
  ELSE matchOn(pattern, s, MatchAt(pattern, s, CHOOSE j \in starts : \A k \in starts : j <= k))
matchAll(pattern, s, i) ==
  matchLeftmost(pattern, s, {j \in i..Len(s) : IsMatchAt(MatchAt(pattern, s, j))})
\* foundArticles.add(value): a Set keeps its values in the order of their first add.
add(foundArticles, value) ==
  IF \E k \in 1..Len(foundArticles) : foundArticles[k] = value THEN foundArticles
  ELSE Append(foundArticles, value)
RECURSIVE addAll(_, _)
addAll(foundArticles, values) ==
  IF values = <<>> THEN foundArticles
  ELSE addAll(add(foundArticles, toUpperCase(Head(values))), Tail(values))
RECURSIVE join(_, _)
join(values, separator) ==
  IF Len(values) = 0 THEN ""
  ELSE IF Len(values) = 1 THEN values[1]
  ELSE values[1] \o separator \o join(Tail(values), separator)
hasDigit(value) == \E i \in 1..Len(value) : IsDigit(CharAt(value, i))      \* /\d/.test(value)
\* /^([A-Z0-9]{4,})\s/i
startMatchGroup(s, codeEnd) ==
  IF codeEnd >= 4 /\ codeEnd + 1 <= Len(s) /\ CharAt(s, codeEnd + 1) \in WhiteSpace
  THEN <<SubSeq(s, 1, codeEnd)>> ELSE <<>>
startMatch(s) == startMatchGroup(s, RunEnd(s, 1, "alnum"))
RECURSIVE patternsFound(_, _, _)
patternsFound(foundArticles, pattern, s) ==
  IF pattern > 5 THEN foundArticles
  ELSE patternsFound(addAll(foundArticles, matchAll(pattern, s, 1)), pattern + 1, s)
hashtagsFound(foundArticles, s) ==
  addAll(foundArticles, SelectSeq(matchAll(6, s, 1), LAMBDA v : hasDigit(v)))
\* if (foundArticles.size === 0): the code at the start of the text.
orStartMatch(foundArticles, s) ==
  IF foundArticles = <<>> THEN addAll(<<>>, startMatch(s)) ELSE foundArticles
NoArticle == ""                                   \* stands for undefined
joined(foundArticles) ==
  IF Len(foundArticles) > 0 THEN join(foundArticles, ", ") ELSE NoArticle
foundIn(s) == orStartMatch(hashtagsFound(patternsFound(<<>>, 1, s), s), s)
extractArticle(text) == IF text = "" THEN NoArticle ELSE joined(foundIn(cleanText(text)))
orTitle(articleFromDescription, articleFromTitle) ==
  IF articleFromDescription # NoArticle THEN articleFromDescription
  ELSE IF articleFromTitle # NoArticle THEN articleFromTitle
  ELSE NoArticle
findArticle(description, title) == orTitle(extractArticle(description), extractArticle(title))
(***************************************************************************)
(* utils/id-generator.ts.  String.prototype.replace with a global pattern  *)
(* puts the string together from what each position becomes.               *)
(***************************************************************************)
\* accountName.replace(/[^a-zA-Z0-9]/g, '')
stripNonAlnum(s) ==
  join([i \in 1..Len(s) |-> IF InClass(CharAt(s, i), "alnum") THEN CharAt(s, i) ELSE ""], "")
\* s.substring(from, to), positions counted from 0.
substring(s, from, to) == SubSeq(s, from + 1, IF to < Len(s) THEN to ELSE Len(s))
\* firstThree || 'XXX': the empty string is the only falsy string.
orSentinel(firstThree) == IF firstThree = "" THEN "XXX" ELSE firstThree
firstThree(accountName) ==
  orSentinel(toUpperCase(substring(stripNonAlnum(accountName), 0, 3)))
\* .replace(/,\s*/g, '-'): a comma becomes the hyphen, the white space behind it goes.
RECURSIVE afterComma(_, _)
afterComma(s, i) ==
  i > 1 /\ (CharAt(s, i - 1) = ","
              \/ (CharAt(s, i - 1) \in WhiteSpace /\ afterComma(s, i - 1)))
commaOnlyAt(s, i) == IF CharAt(s, i) = "," THEN "-" ELSE CharAt(s, i)
commaAt(s, i) ==
  IF CharAt(s, i) = "," THEN "-"
  ELSE IF CharAt(s, i) \in WhiteSpace /\ afterComma(s, i) THEN ""
  ELSE CharAt(s, i)
commasToHyphens(s) == join([i \in 1..Len(s) |-> commaAt(s, i)], "")
\* .replace(/\s+/g, '-')
spaceAt(s, i) ==
  IF CharAt(s, i) \notin WhiteSpace THEN CharAt(s, i)
  ELSE IF i > 1 /\ CharAt(s, i - 1) \in WhiteSpace THEN ""
  ELSE "-"
spacesToHyphens(s) == join([i \in 1..Len(s) |-> spaceAt(s, i)], "")
\* .replace(/[^a-zA-Z0-9-]/g, '')
stripNonIdChars(s) ==
  join([i \in 1..Len(s) |->
          IF InClass(CharAt(s, i), "alnum") \/ CharAt(s, i) = "-" THEN CharAt(s, i) ELSE ""], "")
cleanArticle(article) == stripNonIdChars(spacesToHyphens(commasToHyphens(article)))
generateMetricId(platform, accountName, article) ==
  platform \o "-" \o firstThree(accountName) \o "-" \o cleanArticle(article)

(***************************************************************************)
(* The values of a dataset item and their coercion to a count,             *)
(* parseInt(String(value || 0)).  A JavaScript value is kept with its      *)
(* type; NaN is a value of its own.                                        *)
(***************************************************************************)
JsUndefined == [t |-> "undefined", s |-> "", n |-> 0]
JsString(s) == [t |-> "string", s |-> s, n |-> 0]
JsNumber(n) == [t |-> "number", s |-> "", n |-> n]
JsNaN == [t |-> "NaN", s |-> "", n |-> 0]
\* value || other
truthy(value) == (value.t = "string" /\ value.s # "") \/ (value.t = "number" /\ value.n # 0)
orElse(value, other) == IF truthy(value) THEN value ELSE other
RECURSIVE digitsOf(_)
digitsOf(n) ==
  IF n < 10 THEN CharAt(Digits, n + 1) ELSE digitsOf(n \div 10) \o CharAt(Digits, (n % 10) + 1)
String(value) ==
  CASE value.t = "string" -> value.s
    [] value.t = "number" -> IF value.n < 0 THEN "-" \o digitsOf(-value.n)
                             ELSE digitsOf(value.n)
    [] value.t = "NaN" -> "NaN"
    [] OTHER -> "undefined"
\* parseInt(str) without a radix: leading white space, a sign, then after 0x or 0X
\* the longest run of hexadecimal digits, else the longest run of decimal digits;
\* NaN when there is no digit.
HexDigits == "0123456789abcdef"
HexVal(c) == (CHOOSE k \in 1..16 : CharAt(HexDigits, k) = LowerChar(c)) - 1
RECURSIVE parseInt16(_)
parseInt16(s) == IF Len(s) = 0 THEN 0
                 ELSE parseInt16(SubSeq(s, 1, Len(s) - 1)) * 16 + HexVal(CharAt(s, Len(s)))
parseIntDigits(str, sign, from, to) ==
  IF to < from THEN JsNaN ELSE JsNumber(sign * parseInt10(SubSeq(str, from, to)))
parseIntHexDigits(str, sign, from, to) ==
  IF to < from THEN JsNaN ELSE JsNumber(sign * parseInt16(SubSeq(str, from, to)))
parseIntUnsigned(str, sign, at) ==
  IF at < Len(str) /\ CharAt(str, at) = "0" /\ CharAt(str, at + 1) \in {"x", "X"}
  THEN parseIntHexDigits(str, sign, at + 2, RunEnd(str, at + 2, "hex"))
  ELSE parseIntDigits(str, sign, at, RunEnd(str, at, "digit"))
parseIntSigned(str, start) ==
  IF start <= Len(str) /\ CharAt(str, start) = "-" THEN parseIntUnsigned(str, -1, start + 1)
  ELSE IF start <= Len(str) /\ CharAt(str, start) = "+" THEN parseIntUnsigned(str, 1, start + 1)
  ELSE parseIntUnsigned(str, 1, start)
parseInt(str) == parseIntSigned(str, RunEnd(str, 1, "space") + 1)
\* Variant: a value that is no number counts as 0.
toCountOrZero(value) ==
  IF parseInt(String(orElse(value, JsNumber(0)))).t = "NaN" THEN JsNumber(0)
  ELSE parseInt(String(orElse(value, JsNumber(0))))
toCount(value) == parseInt(String(orElse(value, JsNumber(0))))

\* parseTikTokAccount, the loop over the dataset items: an item without article is
\* left out, the others keep their text as title, get their id from the author's
\* name and the article, and their counts from the item's counters.
RECURSIVE parseTikTokItems(_)
tiktokResult(item, article, accountName) ==
  [id |-> generateMetricId("tiktok", accountName, article), accountName |-> accountName,
   title |-> item.text, article |-> article,
   views |-> toCount(item.playCount), likes |-> toCount(item.diggCount),
   comments |-> toCount(item.commentCount), shares |-> toCount(item.shareCount)]
pushResult(results, item, article) ==
  IF article = NoArticle THEN results
  ELSE <<tiktokResult(item, article,
                      String(orElse(item.authorMeta.name, JsString("unknown"))))>> \o results
parseTikTokItems(items) ==
  IF items = <<>> THEN <<>>
  ELSE pushResult(parseTikTokItems(Tail(items)), Head(items),
                  findArticle(Head(items).text, Head(items).text))

(***************************************************************************)
(* services/google-sheets.service.ts: the pure part of each operation,     *)
(* from the value of the range it reads to the write it issues.            *)
(***************************************************************************)
\* rows.findIndex(row => row[0] === key): the 0-based index, -1 if none.
findIndex(column, key) ==
  IF \E i \in 1..Len(column) : column[i] = key
  THEN (CHOOSE i \in 1..Len(column) :
          column[i] = key /\ \A j \in 1..(i - 1) : column[j] # key) - 1
  ELSE -1
EmptyRow == [id |-> "", account |-> "", videoUrl |-> "", title |-> "", postDate |-> NoDate,
             views |-> 0, likes |-> 0, comments |-> 0, shares |-> 0, article |-> "",
             lastUpdated |-> NoDate]
\* values.update of one whole row: row r is replaced, the sheet growing to reach it.
RECURSIVE UpdateRow(_, _, _)
UpdateRow(sheet, r, row) ==
  IF r <= Len(sheet) THEN [sheet EXCEPT ![r] = row]
  ELSE IF r = Len(sheet) + 1 THEN Append(sheet, row)
  ELSE UpdateRow(Append(sheet, EmptyRow), r, row)
\* values.append: a new row after the last one.
AppendRow(sheet, row) == Append(sheet, row)

\* getAccountsToTrack: the rows of range Accounts!A2:F.  A date cell is kept as
\* what new Date(cell) gives (NoDate for an empty cell, InvalidDate for text that
\* is no date), the accountUrl of a row that ends before column B as Undefined.
getAccountsToTrack(accounts) ==
  LET rows == Tail(accounts)
  IN [i \in 1..Len(rows) |->
        [platform |-> toLowerCase(rows[i].platform), accountUrl |-> rows[i].accountUrl,
         accountName |-> rows[i].accountName, lastChecked |-> rows[i].lastChecked,
         dateFrom |-> rows[i].dateFrom, dateTo |-> rows[i].dateTo]]

\* updateLastChecked: the row of Accounts!B:B holding accountUrl (0 = not found).
\* The range is answered up to its last cell that is not empty, and an empty cell
\* before that one as a row without values, whose row[0] is undefined.
EmptyCell(value) == value = "" \/ value = Undefined
AccountUrlColumn(accounts) ==
  LET filled == {i \in 1..Len(accounts) : ~EmptyCell(accounts[i].accountUrl)}
      last == IF filled = {} THEN 0 ELSE CHOOSE i \in filled : \A j \in filled : j <= i
  IN [i \in 1..last |-> IF EmptyCell(accounts[i].accountUrl) THEN Undefined
                         ELSE accounts[i].accountUrl]
LastCheckedRow(accounts, accountUrl) ==
  LET rowIndex == findIndex(AccountUrlColumn(accounts), accountUrl)
  IN IF rowIndex = -1 THEN 0 ELSE rowIndex + 1

\* values.update of cell D<row>.  The cells of the row before D lie before a filled
\* cell from then on: a row that ended before column B is answered with '' in B.
StampCell(accounts, row, date) ==
  [accounts EXCEPT ![row] = [@ EXCEPT !.lastChecked = date,
                                      !.accountUrl = IF @ = Undefined THEN "" ELSE @]]
\* updateLastChecked as a whole: the sheet after it.
updateLastChecked(accounts, accountUrl, date) ==
  IF LastCheckedRow(accounts, accountUrl) = 0 THEN accounts
  ELSE StampCell(accounts, LastCheckedRow(accounts, accountUrl), date)

\* findVideoRowById: the row number for id in range <sheet>!A:A, 0 standing for null.
IdColumn(sheet) == [i \in 1..Len(sheet) |-> sheet[i].id]
findVideoRowById(sheet, id) ==
  LET rowIndex == findIndex(IdColumn(sheet), id)
  IN IF rowIndex >= 0 THEN rowIndex + 2 ELSE 0

\* safeToISOString: an absent or invalid date is written as the time of the call
\* (new Date()), any other date as it is.
safeToISOString(date, clock) == IF IsDate(date) THEN date ELSE clock
\* The row upsertVideoMetric writes (columns A..K), the same for update and append;
\* clock is the wall clock when the row is built.
MetricRow(metric, clock) ==
  [id |-> metric.id,
   account |-> IF metric.accountName # "" THEN metric.accountName ELSE metric.accountUrl,
   videoUrl |-> metric.videoUrl, title |-> metric.title,
   postDate |-> safeToISOString(metric.postDate, clock),
   views |-> metric.views, likes |-> metric.likes, comments |-> metric.comments,
   shares |-> metric.shares, article |-> metric.article,
   lastUpdated |-> safeToISOString(metric.lastUpdated, clock)]
\* upsertVideoMetric, once findVideoRowById has answered existingRow.
upsertVideoMetric(sheet, existingRow, metric, clock) ==
  IF existingRow # 0 THEN UpdateRow(sheet, existingRow, MetricRow(metric, clock))
  ELSE AppendRow(sheet, MetricRow(metric, clock))

(***************************************************************************)
(* aggregateAccountMetrics: the account matcher, the window test and the   *)
(* sums, over the rows of range <sheet>!A2:K.                              *)
(***************************************************************************)
videoUsername(rowVideoUrl) ==
  LET videoUrlLower == toLowerCase(rowVideoUrl)
  IN IF rowVideoUrl = "" THEN ""
     ELSE IF includes(videoUrlLower, "youtube.com") THEN ""
     ELSE IF includes(videoUrlLower, "tiktok.com/@") \/ includes(videoUrlLower, "vkvideo.ru/@")
          THEN toLowerCase(UsernameToken(rowVideoUrl))
     ELSE ""
\* Variant: the account URL's username is not looked for in the row's label.
isMatchWithoutUsernameInName(row, account) ==
  LET rowAccount == row.account
      accountUsername == toLowerCase(UsernameToken(account.accountUrl))
      exactNameMatch == account.accountName # "" /\ rowAccount = account.accountName
      exactUrlMatch == account.accountUrl # Undefined /\ rowAccount = account.accountUrl
      partialNameMatch ==
        account.accountName # ""
          /\ includes(toLowerCase(rowAccount), toLowerCase(account.accountName))
      reversePartialMatch ==
        account.accountName # ""
          /\ includes(toLowerCase(account.accountName), toLowerCase(rowAccount))
      usernameMatch ==
        accountUsername # "" /\ videoUsername(row.videoUrl) # ""
          /\ accountUsername = videoUsername(row.videoUrl)
  IN exactNameMatch \/ exactUrlMatch \/ partialNameMatch \/ reversePartialMatch
       \/ usernameMatch
isMatch(row, account) ==
  LET rowAccount == row.account
      accountUsername == toLowerCase(UsernameToken(account.accountUrl))
      exactNameMatch == account.accountName # "" /\ rowAccount = account.accountName
      exactUrlMatch == account.accountUrl # Undefined /\ rowAccount = account.accountUrl
      partialNameMatch ==
        account.accountName # ""
          /\ includes(toLowerCase(rowAccount), toLowerCase(account.accountName))
      reversePartialMatch ==
        account.accountName # ""
          /\ includes(toLowerCase(account.accountName), toLowerCase(rowAccount))
      usernameMatch ==
        accountUsername # "" /\ videoUsername(row.videoUrl) # ""
          /\ accountUsername = videoUsername(row.videoUrl)
      accountUsernameInName ==
        accountUsername # "" /\ includes(toLowerCase(rowAccount), accountUsername)
  IN exactNameMatch \/ exactUrlMatch \/ partialNameMatch \/ reversePartialMatch
       \/ usernameMatch \/ accountUsernameInName
\* The window of the aggregation: reversed bounds are swapped, then widened to whole days.
WindowFromUnswapped(account) == StartOfDay(account.dateFrom)   \* variant: no swap
WindowFrom(account) ==
  StartOfDay(IF Before(account.dateTo, account.dateFrom) THEN account.dateTo
             ELSE account.dateFrom)
WindowTo(account) ==
  EndOfDay(IF Before(account.dateTo, account.dateFrom) THEN account.dateFrom
           ELSE account.dateTo)
inRange(postDate, dateFrom, dateTo) == NotAfter(dateFrom, postDate) /\ NotAfter(postDate, dateTo)
\* The rows of the account whose Post Date cell is not empty: the rows the scan
\* loop tests against the window.
DatedRows(rows, account) ==
  {i \in 1..Len(rows) :
     /\ ~(rows[i].account = "" /\ rows[i].videoUrl = "")
     /\ isMatch(rows[i], account)
     /\ HasDate(rows[i].postDate)}
\* The 'Date range' log line and the scan loop's debug line format the bounds and
\* the post date of a row out of range with toISOString; on an Invalid Date that
\* throws a RangeError, which ends the scan with nothing counted.
ScanThrows(rows, dated, dateFrom, dateTo) ==
  ~IsDate(dateFrom) \/ ~IsDate(dateTo) \/ \E i \in dated : ~IsDate(rows[i].postDate)
InRangeRows(rows, dated, dateFrom, dateTo) ==
  IF ScanThrows(rows, dated, dateFrom, dateTo) THEN {}
  ELSE {i \in dated : inRange(rows[i].postDate, dateFrom, dateTo)}
\* Variant: the scan loop adds every row in the window, whatever its account.
CountedRowsOfAnyAccount(rows, account) ==
  {i \in 1..Len(rows) :
     /\ ~(rows[i].account = "" /\ rows[i].videoUrl = "")
     /\ IsDate(rows[i].postDate)
     /\ inRange(rows[i].postDate, WindowFrom(account), WindowTo(account))}
\* The rows (by position in A2:K) that the scan loop adds to the totals.
CountedRows(rows, account) ==
  InRangeRows(rows, DatedRows(rows, account), WindowFrom(account), WindowTo(account))
RECURSIVE SumOver(_, _)
SumOver(f, S) == IF S = {} THEN 0
                 ELSE LET i == CHOOSE j \in S : TRUE IN f[i] + SumOver(f, S \ {i})
NoMetric == [platform |-> "", accountUrl |-> "", accountName |-> "",
             dateFrom |-> NoDate, dateTo |-> NoDate, totalViews |-> 0, totalLikes |-> 0,
             totalComments |-> 0, totalShares |-> 0, videosCount |-> 0,
             lastUpdated |-> NoDate]              \* stands for null
\* A RangeError of the scan is caught and gives null, as an empty count does.
aggregateAccountMetrics(account, sheet, now) ==
  LET rows == Tail(sheet)
      counted == CountedRows(rows, account)
  IN IF ~HasDate(account.dateFrom) \/ ~HasDate(account.dateTo) THEN NoMetric
     ELSE IF account.platform \notin {"tiktok", "youtube", "youtube-shorts", "vk",
                                      "pinterest", "instagram"} THEN NoMetric
     ELSE IF Len(rows) = 0 THEN NoMetric
     ELSE IF Cardinality(counted) = 0 THEN NoMetric
     ELSE [platform |-> account.platform, accountUrl |-> account.accountUrl,
           accountName |-> IF account.accountName # "" THEN account.accountName
                           ELSE "Unknown",
           dateFrom |-> WindowFrom(account), dateTo |-> WindowTo(account),
           totalViews |-> SumOver([i \in counted |-> rows[i].views], counted),
           totalLikes |-> SumOver([i \in counted |-> rows[i].likes], counted),
           totalComments |-> SumOver([i \in counted |-> rows[i].comments], counted),
           totalShares |-> SumOver([i \in counted |-> rows[i].shares], counted),
           videosCount |-> Cardinality(counted),
           lastUpdated |-> now]

(***************************************************************************)
(* writeAccountGlobalMetric: the row of 'Accounts Global Metric'!A2:K with *)
(* the metric's identity, and the row written.                             *)
(***************************************************************************)
FactRow(metric) ==
  [platform |-> metric.platform, accountUrl |-> metric.accountUrl,
   accountName |-> metric.accountName,
   dateFrom |-> StartOfDay(metric.dateFrom), dateTo |-> StartOfDay(metric.dateTo),
   totalViews |-> metric.totalViews, totalLikes |-> metric.totalLikes,
   totalComments |-> metric.totalComments, totalShares |-> metric.totalShares,
   videosCount |-> metric.videosCount, lastUpdated |-> metric.lastUpdated]
existingRowIndex(factSheet, metric) ==
  LET rows == Tail(factSheet)
      hits == {i \in 1..Len(rows) :
                 /\ rows[i].platform = metric.platform
                 /\ rows[i].accountUrl = metric.accountUrl
                 /\ StartOfDay(rows[i].dateFrom) = StartOfDay(metric.dateFrom)
                 /\ StartOfDay(rows[i].dateTo) = StartOfDay(metric.dateTo)}
  IN IF hits = {} THEN -1
     ELSE (CHOOSE i \in hits : \A j \in hits : i <= j) + 1
writeAccountGlobalMetric(factSheet, rowIndex, metric) ==
  IF rowIndex > 0 THEN UpdateRow(factSheet, rowIndex, FactRow(metric))
  ELSE AppendRow(factSheet, FactRow(metric))

(***************************************************************************)
(* services/metrics-collector.service.ts: the pure parts.                  *)
(***************************************************************************)
filterAccountsToCheck(accountList, now, intervalDays) ==
  LET intervalMs == intervalDays * 1000
  IN SelectSeq(accountList,
               LAMBDA account : \/ ~HasDate(account.lastChecked)
                                \/ /\ IsDate(account.lastChecked)   \* NaN >= n is false
                                   /\ DiffMs(now, account.lastChecked) >= intervalMs)

(***************************************************************************)
(* State.                                                                  *)
(***************************************************************************)
VARIABLES
  accounts,           \* sheet 'Accounts'
  metrics,            \* the platform sheets, by sheet name
  facts,              \* sheet 'Accounts Global Metric'
  now,                \* the wall clock
  cyc,                \* per trigger: the collectMetrics invocation it started
  started,            \* collection cycles started so far
  rejected,           \* history: the external calls that were rejected, in order
  overlapped,         \* history: a cycle was started while another was executing
  call,               \* a function applied on its own: its name and arguments
  ret,                \* <<>> before the call, <<value>> once it has returned
  globalMetrics,      \* configuration: globalMetrics.dateFrom / globalMetrics.dateTo
  response,           \* the updateGlobalMetrics request: where it is, what it answers
  checkIntervalDays,  \* MetricsCollectorService.checkIntervalDays
  adding,             \* the POST accounts request: where it is, and how it ended
  elapsed             \* history: clock moves while a cycle ran or before the first one
vars == <<accounts, metrics, facts, now, cyc, started, rejected, overlapped, call, ret,
          globalMetrics, response, checkIntervalDays, adding, elapsed>>

\* The global default window: configuration.ts gives '30d' and '0d' unless the
\* environment sets GLOBAL_METRICS_DATE_FROM / GLOBAL_METRICS_DATE_TO, here to a
\* text parseDate does not read, or to a count of days that leads out of the
\* range of a Date.
DefaultWindow == [dateFrom |-> "30d", dateTo |-> "0d"]          \* configuration.ts 21-22
GlobalMetricsConfigs == {DefaultWindow, [dateFrom |-> "30 days", dateTo |-> "0d"],
                         [dateFrom |-> "200000000d", dateTo |-> "0d"]}
GlobalDateFrom == globalMetrics.dateFrom
GlobalDateTo == globalMetrics.dateTo
\* Variant: a default bound that cannot be read is taken to be today.
getEffectiveDateFromOrToday(account, clock) ==
  IF HasDate(account.dateFrom) THEN account.dateFrom
  ELSE IF IsDate(parseDate(GlobalDateFrom, clock)) THEN parseDate(GlobalDateFrom, clock)
  ELSE StartOfDay(clock)
getEffectiveDateFrom(account, clock) ==
  IF HasDate(account.dateFrom) THEN account.dateFrom ELSE parseDate(GlobalDateFrom, clock)
getEffectiveDateTo(account, clock) ==
  IF HasDate(account.dateTo) THEN account.dateTo ELSE parseDate(GlobalDateTo, clock)

Workers == {"cron", "manual"}    \* handleCron and POST /collect
Idle == [pc |-> "idle", accountsToCheck |-> <<>>, idx |-> 0, videos |-> <<>>,
         stage |-> 0, item |-> 0, existingRow |-> 0, date |-> NoDate, row |-> 0,
         window |-> [dateFrom |-> NoDate, dateTo |-> NoDate], metric |-> NoMetric,
         total |-> 0, result |-> "none", accountList |-> <<>>, listRejected |-> FALSE,
         filteredAt |-> NoDate, interval |-> 0, stampRow |-> 0, builtAt |-> NoDate,
         report |-> <<>>]
Running(w) == cyc[w].pc \notin {"idle", "done"}
NoCall == [fn |-> ""]
NotAdding == [pc |-> "idle", account |-> [accountUrl |-> ""], result |-> "none"]
NoResponse == [calls |-> 0, pc |-> "idle", accountList |-> <<>>, k |-> 0,
               metric |-> NoMetric, row |-> 0, failed |-> FALSE,
               processed |-> 0, updated |-> 0, skipped |-> 0, windows |-> <<>>]

\* The sheets, the clock and the collector as construction leaves them.
Constructed ==
  /\ accounts = <<AccountsHeader>> \o AccountRows
  /\ metrics = [n \in SheetNames |-> <<MetricsHeader>>]
  /\ facts = <<FactsHeader>>
  /\ now = At(0, 0)
  /\ cyc = [w \in Workers |-> Idle]
  /\ started = 0
  /\ rejected = <<>>
  /\ overlapped = FALSE
  /\ globalMetrics \in GlobalMetricsConfigs
  /\ response = NoResponse
  /\ checkIntervalDays = ConfiguredCheckIntervalDays
  /\ adding = NotAdding
  /\ elapsed = 0
Init ==
  /\ Constructed
  /\ call = NoCall
  /\ ret = <<>>

(***************************************************************************)
(* What each catch block does with a rejected call.                        *)
(***************************************************************************)
getAccountsToTrackSwallows == FALSE       \* variant: the listing error is only logged
getAccountsToTrackRethrows == TRUE        \* google-sheets.service.ts 70-73
parseAccountRethrows == FALSE             \* apify-parser.service.ts 86-89: return []
findVideoRowByIdRethrows == FALSE         \* 290-292: return null
upsertVideoMetricThrows == TRUE           \* variant: the item error is thrown on
upsertVideoMetricRethrows == FALSE        \* 269-271: logged only
writeVideoMetricsRethrows == TRUE         \* 208-211
updateLastCheckedRethrows == FALSE        \* 133-135: logged only
aggregateAccountMetricsRethrows == FALSE  \* 642-645: return null
writeAccountGlobalMetricRethrows == TRUE  \* 751-754
updateAccountGlobalMetricThrows == TRUE   \* variant: the error is thrown on
updateAccountGlobalMetricRethrows == FALSE  \* part_003 158-161: logged only
processAccountRethrows == TRUE            \* part_003 112-115
accountLoopRethrows == FALSE              \* part_003 70-72: logged, next account
collectMetricsRethrows == TRUE            \* part_003 76-79

(***************************************************************************)
(* History kept per processed account: the calls made for it, in order.    *)
(***************************************************************************)
Entry(url) == [accountUrl |-> url, fetched |-> 0, ids |-> <<>>, log |-> <<>>,
               returned |-> -1]
Logged(c, ev) == [c EXCEPT !.report[c.idx].log = Append(@, ev)]
Ev(kind, id) == [kind |-> kind, id |-> id]

(***************************************************************************)
(* collectMetrics and processAccount: where control goes between awaits.   *)
(***************************************************************************)
\* processAccount starts for the account at position c.idx: parseAccount is awaited.
BeginAccount(c) ==
  [c EXCEPT !.pc = "parse", !.videos = <<>>, !.stage = 0, !.item = 0,
            !.report = Append(@, Entry(c.accountsToCheck[c.idx].accountUrl))]
\* Variant: the loop stops at an account that processed nothing.
LoopStopsOnEmpty(processedVideos) == processedVideos > 0
\* The for loop of collectMetrics goes on after an account, whatever it returned.
LoopGoesOn(processedVideos) == TRUE
NextAccount(c, processedVideos) ==
  IF c.idx < Len(c.accountsToCheck) /\ LoopGoesOn(processedVideos)
  THEN BeginAccount([c EXCEPT !.idx = @ + 1])
  ELSE [c EXCEPT !.pc = "done", !.result = "completed"]
\* processAccount returned processedVideos.
AccountReturned(c, processedVideos) ==
  NextAccount([c EXCEPT !.total = @ + processedVideos,
                        !.report[c.idx].returned = processedVideos], processedVideos)
\* An error reached the catch of processAccount.
AccountThrew(c) ==
  IF processAccountRethrows /\ accountLoopRethrows
  THEN [c EXCEPT !.pc = "done",
                 !.result = IF collectMetricsRethrows THEN "failed" ELSE "completed"]
  ELSE IF processAccountRethrows THEN NextAccount(c, 0)
  ELSE AccountReturned(c, 0)
\* Variant: lastChecked is stamped before the videos are written.
processAccountStepsStampFirst(videos) ==
  IF Len(videos) = 0 THEN <<"updateLastChecked">>
  ELSE <<"updateLastChecked", "writeVideoMetrics", "updateAccountGlobalMetric">>
\* The awaited calls of processAccount after parseAccount, in order.
processAccountSteps(videos) ==
  IF Len(videos) = 0 THEN <<"updateLastChecked">>
  ELSE <<"writeVideoMetrics", "updateLastChecked", "updateAccountGlobalMetric">>
\* Control enters the step at position c.stage, up to its first await.
RECURSIVE EnterStep(_, _)
EnterStep(c, clock) ==
  LET steps == processAccountSteps(c.videos)
      account == c.accountsToCheck[c.idx]
      dateFrom == getEffectiveDateFrom(account, clock)
      dateTo == getEffectiveDateTo(account, clock)
  IN IF c.stage > Len(steps) THEN AccountReturned(c, Len(c.videos))
     ELSE IF steps[c.stage] = "writeVideoMetrics"
          THEN IF Len(c.videos) = 0 THEN EnterStep([c EXCEPT !.stage = @ + 1], clock)
               ELSE [c EXCEPT !.pc = "find", !.item = 1]
     ELSE IF steps[c.stage] = "updateLastChecked"
          THEN [c EXCEPT !.pc = "stamp", !.date = clock]
     ELSE IF ~HasDate(dateFrom) \/ ~HasDate(dateTo)
          THEN EnterStep(Logged([c EXCEPT !.stage = @ + 1], Ev("aggregateSkipped", "")), clock)
          ELSE [c EXCEPT !.pc = "agg_read",
                         !.window = [dateFrom |-> dateFrom, dateTo |-> dateTo]]
StepDone(c, clock) == EnterStep([c EXCEPT !.stage = @ + 1], clock)

\* writeVideoMetrics goes to its next metric, or returns after the last one.
NextItem(c, clock) ==
  IF c.item < Len(c.videos) THEN [c EXCEPT !.pc = "find", !.item = @ + 1]
  ELSE StepDone(c, clock)
\* A rejected call inside upsertVideoMetric reached its catch.
UpsertFailed(c, clock) ==
  LET c1 == Logged(c, Ev("upsertFailed", c.videos[c.item].id))
  IN IF ~upsertVideoMetricRethrows THEN NextItem(c1, clock)
     ELSE IF writeVideoMetricsRethrows THEN AccountThrew(c1)
     ELSE StepDone(c1, clock)
\* A rejected call inside updateLastChecked reached its catch.
StampFailed(c, clock) ==
  LET c1 == Logged(c, Ev("stampFailed", ""))
  IN IF updateLastCheckedRethrows THEN AccountThrew(c1) ELSE StepDone(c1, clock)
\* Variant: a null aggregate is written like any other.
alwaysGlobalMetric(globalMetric) == FALSE
\* updateAccountGlobalMetric: if (!globalMetric) return.
noGlobalMetric(globalMetric) == globalMetric = NoMetric
\* An error reached the catch of updateAccountGlobalMetric.
GlobalMetricFailed(c, clock) ==
  IF updateAccountGlobalMetricRethrows THEN AccountThrew(c) ELSE StepDone(c, clock)
\* A rejected call inside writeAccountGlobalMetric reached its catch.
FactFailed(c, clock) ==
  LET c1 == Logged(c, Ev("factFailed", ""))
  IN IF writeAccountGlobalMetricRethrows THEN GlobalMetricFailed(c1, clock)
     ELSE StepDone(c1, clock)

(***************************************************************************)
(* Actions.                                                                *)
(***************************************************************************)
\* What a behaviour may have besides cycles that run one after the other with the
\* clock moving between them.  To keep the exploration bounded, a behaviour has one
\* of these only; a rejected call of updateGlobalMetrics itself goes with it.
InUse(feature) ==
  CASE feature = "rejects" -> rejected # <<>>          \* an external call was rejected
    [] feature = "overlap" -> overlapped                \* a cycle started during another
    [] feature = "window" -> globalMetrics # DefaultWindow
    [] feature = "recompute" -> response.calls > 0      \* updateGlobalMetrics was called
    [] feature = "interval" -> checkIntervalDays # ConfiguredCheckIntervalDays
    [] feature = "account" -> adding.pc # "idle"        \* an account was posted
    [] feature = "clock" -> elapsed > 0                 \* time passed inside a cycle
Features == {"rejects", "overlap", "window", "recompute", "interval", "account", "clock"}
Only(feature) == \A other \in Features \ {feature} : ~InUse(other)
CanReject == Len(rejected) < MaxFailures /\ Only("rejects")
Rejects(name) == CanReject /\ rejected' = Append(rejected, name)
Me(w) == cyc[w]
Account(w) == cyc[w].accountsToCheck[cyc[w].idx]
SheetOf(w) == getSheetNameForPlatform(cyc[w].videos[cyc[w].item].platform)

\* A trigger starts collectMetrics, which runs up to its first await.
Start(w) ==
  /\ ~Running(w)
  /\ (\E v \in Workers \ {w} : Running(v)) => Only("overlap")
  /\ started < (IF InUse("recompute") THEN MaxCyclesWithRecompute ELSE MaxCycles)
  /\ started' = started + 1
  /\ overlapped' = (overlapped \/ \E v \in Workers \ {w} : Running(v))
  /\ cyc' = [cyc EXCEPT ![w] = [Idle EXCEPT !.pc = "list"]]
  /\ UNCHANGED <<accounts, metrics, facts, now, rejected, call, ret, globalMetrics,
                 response, checkIntervalDays, adding, elapsed>>
handleCron == Start("cron")
triggerManualCollection == Start("manual")

\* getAccountsToTrack answers; the due accounts are filtered.
AccountsListed(w) ==
  /\ Me(w).pc = "list"
  /\ \/ /\ LET list == getAccountsToTrack(accounts)
               due == filterAccountsToCheck(list, now, checkIntervalDays)
           IN cyc' = [cyc EXCEPT ![w] =
                        IF Len(list) = 0
                        THEN [@ EXCEPT !.pc = "done", !.result = "completed"]
                        ELSE IF Len(due) = 0
                        THEN [@ EXCEPT !.pc = "done", !.result = "completed",
                                       !.accountList = list, !.filteredAt = now,
                                       !.interval = checkIntervalDays]
                        ELSE BeginAccount([@ EXCEPT !.accountsToCheck = due, !.idx = 1,
                                                    !.accountList = list,
                                                    !.filteredAt = now,
                                                    !.interval = checkIntervalDays])]
        /\ UNCHANGED rejected
     \/ /\ Rejects("getAccountsToTrack")
        /\ cyc' = [cyc EXCEPT ![w] =
                     [@ EXCEPT !.pc = "done", !.listRejected = TRUE,
                               !.result = IF getAccountsToTrackRethrows /\ collectMetricsRethrows
                                          THEN "failed" ELSE "completed"]]
  /\ UNCHANGED <<accounts, metrics, facts, now, started, overlapped, call, ret, globalMetrics, response,
                 checkIntervalDays, adding, elapsed>>

\* parseAccount answers with the normalized videos of the account.
AccountParsed(w) ==
  /\ Me(w).pc = "parse"
  /\ \/ /\ \E batch \in Batches(Account(w).accountUrl) :
             cyc' = [cyc EXCEPT ![w] =
                       EnterStep(Logged([@ EXCEPT !.videos = Normalized(batch, now),
                                                  !.stage = 1,
                                                  !.report[Me(w).idx].fetched = Len(batch),
                                                  !.report[Me(w).idx].ids =
                                                    [k \in 1..Len(batch) |-> batch[k].id]],
                                        Ev("fetched", "")), now)]
        /\ UNCHANGED rejected
     \/ /\ Rejects("parseAccount")
        /\ cyc' = [cyc EXCEPT ![w] =
                     IF parseAccountRethrows
                     THEN AccountThrew(Logged(@, Ev("fetchFailed", "")))
                     ELSE EnterStep(Logged([@ EXCEPT !.videos = <<>>, !.stage = 1],
                                           Ev("fetchFailed", "")), now)]
  /\ UNCHANGED <<accounts, metrics, facts, now, started, overlapped, call, ret, globalMetrics, response,
                 checkIntervalDays, adding, elapsed>>

\* findVideoRowById: the read of column A answers.  upsertVideoMetric goes on to
\* build the row values (safeToISOString reads the clock here, at builtAt) and
\* awaits the update or the append.
RowLookedUp(w) ==
  /\ Me(w).pc = "find"
  /\ \/ /\ cyc' = [cyc EXCEPT ![w] =
                     [@ EXCEPT !.pc = "write", !.builtAt = now,
                               !.existingRow = findVideoRowById(metrics[SheetOf(w)],
                                                                Me(w).videos[Me(w).item].id)]]
        /\ UNCHANGED rejected
     \/ /\ Rejects("findVideoRowById")
        /\ cyc' = [cyc EXCEPT ![w] =
                     IF findVideoRowByIdRethrows THEN UpsertFailed(@, now)
                     ELSE [@ EXCEPT !.pc = "write", !.builtAt = now, !.existingRow = 0]]
  /\ UNCHANGED <<accounts, metrics, facts, now, started, overlapped, call, ret, globalMetrics, response,
                 checkIntervalDays, adding, elapsed>>

\* upsertVideoMetric: the update or the append answers; the row it carries was
\* built when the lookup answered.
RowWritten(w) ==
  /\ Me(w).pc = "write"
  /\ \/ /\ metrics' = [metrics EXCEPT ![SheetOf(w)] =
                         upsertVideoMetric(@, Me(w).existingRow, Me(w).videos[Me(w).item],
                                           Me(w).builtAt)]
        /\ cyc' = [cyc EXCEPT ![w] =
                     NextItem(Logged([@ EXCEPT !.builtAt = NoDate],
                                     Ev("upserted", Me(w).videos[Me(w).item].id)), now)]
        /\ UNCHANGED rejected
     \/ /\ Rejects("upsertVideoMetric")
        /\ cyc' = [cyc EXCEPT ![w] = UpsertFailed([@ EXCEPT !.builtAt = NoDate], now)]
        /\ UNCHANGED metrics
  /\ UNCHANGED <<accounts, facts, now, started, overlapped, call, ret, globalMetrics, response,
                 checkIntervalDays, adding, elapsed>>

\* updateLastChecked: the read of Accounts!B:B answers; the row of the account is
\* computed from it.
StampRowFound(w) ==
  /\ Me(w).pc = "stamp"
  /\ \/ /\ LET rowNumber == LastCheckedRow(accounts, Account(w).accountUrl)
           IN cyc' = [cyc EXCEPT ![w] =
                        IF rowNumber = 0
                        THEN StepDone(Logged(@, Ev("stampSkipped", "")), now)
                        ELSE [@ EXCEPT !.pc = "stamp_write", !.stampRow = rowNumber]]
        /\ UNCHANGED rejected
     \/ /\ Rejects("updateLastChecked")
        /\ cyc' = [cyc EXCEPT ![w] = StampFailed(@, now)]
  /\ UNCHANGED <<accounts, metrics, facts, now, started, overlapped, call, ret, globalMetrics,
                 response, checkIntervalDays, adding, elapsed>>

\* updateLastChecked: the update of cell D<row> answers.
Stamped(w) ==
  /\ Me(w).pc = "stamp_write"
  /\ \/ /\ accounts' = StampCell(accounts, Me(w).stampRow, Me(w).date)
        /\ cyc' = [cyc EXCEPT ![w] = StepDone(Logged(@, Ev("stamped", "")), now)]
        /\ UNCHANGED rejected
     \/ /\ Rejects("updateLastChecked")
        /\ cyc' = [cyc EXCEPT ![w] = StampFailed(@, now)]
        /\ UNCHANGED accounts
  /\ UNCHANGED <<metrics, facts, now, started, overlapped, call, ret, globalMetrics, response,
                 checkIntervalDays, adding, elapsed>>

\* aggregateAccountMetrics: the read of the platform sheet answers.
Aggregated(w) ==
  /\ Me(w).pc = "agg_read"
  /\ \/ /\ LET account == [Account(w) EXCEPT !.dateFrom = Me(w).window.dateFrom,
                                             !.dateTo = Me(w).window.dateTo]
               globalMetric == aggregateAccountMetrics(
                                 account, metrics[getSheetNameForPlatform(account.platform)],
                                 now)
           IN cyc' = [cyc EXCEPT ![w] =
                        IF noGlobalMetric(globalMetric)
                        THEN StepDone(Logged(@, Ev("aggregated", "")), now)
                        ELSE [Logged(@, Ev("aggregated", ""))
                                EXCEPT !.pc = "fact_read", !.metric = globalMetric]]
        /\ UNCHANGED rejected
     \/ /\ Rejects("aggregateAccountMetrics")
        /\ cyc' = [cyc EXCEPT ![w] =
                     IF aggregateAccountMetricsRethrows
                     THEN GlobalMetricFailed(Logged(@, Ev("aggregateFailed", "")), now)
                     ELSE StepDone(Logged(@, Ev("aggregateFailed", "")), now)]
  /\ UNCHANGED <<accounts, metrics, facts, now, started, overlapped, call, ret, globalMetrics, response,
                 checkIntervalDays, adding, elapsed>>

\* writeAccountGlobalMetric: the read of the facts sheet answers.
FactLookedUp(w) ==
  /\ Me(w).pc = "fact_read"
  /\ \/ /\ cyc' = [cyc EXCEPT ![w] =
                     [@ EXCEPT !.pc = "fact_write",
                               !.row = existingRowIndex(facts, Me(w).metric)]]
        /\ UNCHANGED rejected
     \/ /\ Rejects("writeAccountGlobalMetric")
        /\ cyc' = [cyc EXCEPT ![w] = FactFailed(@, now)]
  /\ UNCHANGED <<accounts, metrics, facts, now, started, overlapped, call, ret, globalMetrics, response,
                 checkIntervalDays, adding, elapsed>>

\* writeAccountGlobalMetric: the update or the append answers.
FactWritten(w) ==
  /\ Me(w).pc = "fact_write"
  /\ \/ /\ facts' = writeAccountGlobalMetric(facts, Me(w).row, Me(w).metric)
        /\ cyc' = [cyc EXCEPT ![w] = StepDone(Logged(@, Ev("factWritten", "")), now)]
        /\ UNCHANGED rejected
     \/ /\ Rejects("writeAccountGlobalMetric")
        /\ cyc' = [cyc EXCEPT ![w] = FactFailed(@, now)]
        /\ UNCHANGED facts
  /\ UNCHANGED <<accounts, metrics, now, started, overlapped, call, ret, globalMetrics, response,
                 checkIntervalDays, adding, elapsed>>

\* The wall clock advances: by a few seconds, by a few more, or to the next day.
\* Every reading of new Date() takes the clock of its own step.  Between cycles the
\* clock moves freely; while a cycle runs, or before the first one, it moves at most
\* MaxElapsed times in a behaviour.
TickMs == 3 * 1000
TickMoreMs == 2 * 1000
MaxElapsed == 1
BetweenCycles == started >= 1 /\ \A w \in Workers : ~Running(w)
Tick ==
  /\ \/ BetweenCycles /\ UNCHANGED elapsed
     \/ ~BetweenCycles /\ Only("clock") /\ elapsed < MaxElapsed /\ elapsed' = elapsed + 1
  /\ \/ now.ms = 0 /\ now' = At(now.day, TickMs)
     \/ now.ms = TickMs /\ now' = At(now.day, TickMs + TickMoreMs)
     \/ now.day < MaxDay /\ now' = At(now.day + 1, 0)
  /\ UNCHANGED <<accounts, metrics, facts, cyc, started, rejected, overlapped, call, ret,
                 globalMetrics, response, checkIntervalDays, adding>>

\* MetricsController.updateSchedule, POST schedule: setCheckInterval(days).  The
\* ValidationPipe passes a body whose checkIntervalDays is an integer from 1 to 30
\* (UpdateScheduleDto).  The interval is changed at most once in a behaviour.
IntervalChoices == {1, 10}
setCheckInterval(days) ==
  /\ checkIntervalDays = ConfiguredCheckIntervalDays
  /\ Only("interval")
  /\ checkIntervalDays' = days
  /\ UNCHANGED <<accounts, metrics, facts, now, cyc, started, rejected, overlapped, call, ret,
                 globalMetrics, response, adding, elapsed>>
updateSchedule == \E days \in IntervalChoices : setCheckInterval(days)

\* MetricsController.addAccount, POST accounts: MetricsCollectorService.addAccount
\* up to the answer of getAccountsToTrack.  A rejected read is logged and rethrown
\* and nothing is appended.  One account is posted in a behaviour.
PostedAccounts == {
  [platform |-> "tiktok", accountUrl |-> "https://www.tiktok.com/@newshop",
   accountName |-> "newshop"],
  [platform |-> "tiktok", accountUrl |-> "https://www.tiktok.com/@shopbrand",
   accountName |-> "shopbrand"] }
exists(existingAccounts, account) ==
  \E i \in 1..Len(existingAccounts) : existingAccounts[i].accountUrl = account.accountUrl
addAccount(account) ==
  /\ adding.pc = "idle"
  /\ Only("account")
  /\ \/ adding' = IF exists(getAccountsToTrack(accounts), account)
                   THEN [pc |-> "done", account |-> account, result |-> "exists"]
                   ELSE [pc |-> "append", account |-> account, result |-> "none"]
     \/ adding' = [pc |-> "done", account |-> account, result |-> "failed"]
  /\ UNCHANGED <<accounts, metrics, facts, now, cyc, started, rejected, overlapped, call, ret,
                 globalMetrics, response, checkIntervalDays, elapsed>>
\* The row addAccountToTrack appends (columns A..D; E and F stay empty).
AccountRow(account) ==
  [platform |-> account.platform, accountUrl |-> account.accountUrl,
   accountName |-> account.accountName, lastChecked |-> NoDate,
   dateFrom |-> NoDate, dateTo |-> NoDate]
\* GoogleSheetsService.addAccountToTrack: the append to 'Accounts' answers, or is
\* rejected: the rejection is logged and rethrown, and addAccount rethrows it.
addAccountToTrack ==
  /\ adding.pc = "append"
  /\ \/ /\ accounts' = AppendRow(accounts, AccountRow(adding.account))
        /\ adding' = [adding EXCEPT !.pc = "done", !.result = "added"]
     \/ /\ accounts' = accounts
        /\ adding' = [adding EXCEPT !.pc = "done", !.result = "failed"]
  /\ UNCHANGED <<metrics, facts, now, cyc, started, rejected, overlapped, call, ret,
                 globalMetrics, response, checkIntervalDays, elapsed>>

\* AdminController.updateGlobalMetrics, POST admin/update-global-metrics.  The
\* handler awaits getAccountsToTrack and then, for each account with both dates,
\* aggregateAccountMetrics (one read) and writeAccountGlobalMetric (one read, one
\* write); other requests, the cycles and the clock go on between its awaits.
MaxRecomputes == 1
AdminAccount == response.accountList[response.k]
\* An external call of the handler is rejected.
AdminRejects(name) ==
  /\ Len(rejected) < MaxFailures
  /\ \A other \in Features \ {"recompute", "rejects"} : ~InUse(other)
  /\ rejected' = Append(rejected, name)
\* The for loop goes on after position r.k: an account without both dates is passed
\* over; the next one is counted and its aggregation awaited; after the last
\* account the counts are answered.
RECURSIVE updateGlobalMetricsLoop(_)
updateGlobalMetricsLoop(r) ==
  IF r.k >= Len(r.accountList)
  THEN [r EXCEPT !.pc = "done", !.metric = NoMetric, !.row = 0,
                 !.skipped = Len(r.accountList) - r.processed]
  ELSE LET account == r.accountList[r.k + 1]
       IN IF ~HasDate(account.dateFrom) \/ ~HasDate(account.dateTo)
          THEN updateGlobalMetricsLoop([r EXCEPT !.k = @ + 1])
          ELSE [r EXCEPT !.k = @ + 1, !.pc = "agg", !.metric = NoMetric, !.row = 0,
                         !.processed = @ + 1,
                         !.windows = Append(@, [accountUrl |-> account.accountUrl,
                                                dateFrom |-> account.dateFrom,
                                                dateTo |-> account.dateTo])]
\* The request arrives: the handler runs up to its first await.
updateGlobalMetrics ==
  /\ response.pc \in {"idle", "done"}
  /\ response.calls < MaxRecomputes
  /\ started <= MaxCyclesWithRecompute
  /\ Only("recompute")
  /\ response' = [NoResponse EXCEPT !.calls = response.calls + 1, !.pc = "list"]
  /\ UNCHANGED <<accounts, metrics, facts, now, cyc, started, rejected, overlapped, call, ret,
                 globalMetrics, checkIntervalDays, adding, elapsed>>
\* getAccountsToTrack answers the handler; a rejection is thrown out of the handler.
AdminAccountsListed ==
  /\ response.pc = "list"
  /\ \/ /\ response' = updateGlobalMetricsLoop(
                          [response EXCEPT !.accountList = getAccountsToTrack(accounts)])
        /\ UNCHANGED rejected
     \/ /\ AdminRejects("getAccountsToTrack")
        /\ response' = [response EXCEPT !.pc = "done", !.failed = getAccountsToTrackRethrows]
  /\ UNCHANGED <<accounts, metrics, facts, now, cyc, started, overlapped, call, ret,
                 globalMetrics, checkIntervalDays, adding, elapsed>>
\* aggregateAccountMetrics answers the handler: with a metric the fact write is
\* awaited, with null (a rejected read is caught inside and gives null) the loop
\* goes on.
AdminAggregated ==
  /\ response.pc = "agg"
  /\ \/ /\ LET globalMetric ==
                 aggregateAccountMetrics(
                   AdminAccount, metrics[getSheetNameForPlatform(AdminAccount.platform)], now)
           IN response' = IF globalMetric = NoMetric THEN updateGlobalMetricsLoop(response)
                          ELSE [response EXCEPT !.pc = "fact_read", !.metric = globalMetric]
        /\ UNCHANGED rejected
     \/ /\ AdminRejects("aggregateAccountMetrics")
        /\ response' = updateGlobalMetricsLoop(response)
  /\ UNCHANGED <<accounts, metrics, facts, now, cyc, started, overlapped, call, ret,
                 globalMetrics, checkIntervalDays, adding, elapsed>>
\* writeAccountGlobalMetric: the read of the facts sheet answers the handler; a
\* rejection is rethrown to the handler's catch, which logs it and goes on.
AdminFactLookedUp ==
  /\ response.pc = "fact_read"
  /\ \/ /\ response' = [response EXCEPT !.pc = "fact_write",
                                         !.row = existingRowIndex(facts, response.metric)]
        /\ UNCHANGED rejected
     \/ /\ AdminRejects("writeAccountGlobalMetric")
        /\ response' = updateGlobalMetricsLoop(response)
  /\ UNCHANGED <<accounts, metrics, facts, now, cyc, started, overlapped, call, ret,
                 globalMetrics, checkIntervalDays, adding, elapsed>>
\* writeAccountGlobalMetric: the update or the append answers the handler: updated++.
AdminFactWritten ==
  /\ response.pc = "fact_write"
  /\ \/ /\ facts' = writeAccountGlobalMetric(facts, response.row, response.metric)
        /\ response' = updateGlobalMetricsLoop([response EXCEPT !.updated = @ + 1])
        /\ UNCHANGED rejected
     \/ /\ AdminRejects("writeAccountGlobalMetric")
        /\ response' = updateGlobalMetricsLoop(response)
        /\ UNCHANGED facts
  /\ UNCHANGED <<accounts, metrics, now, cyc, started, overlapped, call, ret,
                 globalMetrics, checkIntervalDays, adding, elapsed>>

Next ==
  \/ handleCron
  \/ triggerManualCollection
  \/ \E w \in Workers :
       \/ AccountsListed(w) \/ AccountParsed(w) \/ RowLookedUp(w) \/ RowWritten(w)
       \/ StampRowFound(w) \/ Stamped(w) \/ Aggregated(w) \/ FactLookedUp(w)
       \/ FactWritten(w)
  \/ updateGlobalMetrics
  \/ AdminAccountsListed \/ AdminAggregated \/ AdminFactLookedUp \/ AdminFactWritten
  \/ updateSchedule
  \/ \E account \in PostedAccounts : addAccount(account)
  \/ addAccountToTrack
  \/ Tick

Spec == Init /\ [][Next]_vars

(***************************************************************************)
(* The pure parts applied on their own: the arguments are drawn at the     *)
(* start, the one step applies the function and records what it returns.   *)
(***************************************************************************)
\* Window bounds as an operator may enter them, with and without a time of day.
ProbeBounds == {At(-2, 0), At(-2, 40000), At(0, 0), At(0, 40000)}
ProbeAccount(dateFrom, dateTo) ==
  [platform |-> "tiktok", accountUrl |-> "https://www.tiktok.com/@shopbrand",
   accountName |-> "shopbrand", lastChecked |-> NoDate,
   dateFrom |-> dateFrom, dateTo |-> dateTo]
\* A stored row; the probe rows' view counts are distinct powers of two, so a total
\* tells which rows were added to it.
ProbeRow(id, label, postDate, views) ==
  MetricRow([id |-> id, accountName |-> label, accountUrl |-> "",
             videoUrl |-> "", title |-> id, postDate |-> postDate,
             views |-> views, likes |-> 3 * views, comments |-> 5 * views,
             shares |-> 7 * views, article |-> id, lastUpdated |-> At(0, 0)], At(0, 0))
ProbeRows == <<
  ProbeRow("p1", "shopbrand", At(-3, MsPerDay - 1), 1),   \* the day before
  ProbeRow("p2", "shopbrand", At(-2, 0), 2),              \* 00:00:00.000
  ProbeRow("p3", "shopbrand", At(0, MsPerDay - 1), 4),    \* 23:59:59.999
  ProbeRow("p4", "shopbrand", At(1, 0), 8),               \* the next day
  ProbeRow("p5", "otherstore", At(-1, 0), 16) >>          \* another account
ProbeSheet(header, rows, S) ==
  LET idx == SelectSeq([i \in 1..Len(rows) |-> i], LAMBDA i : i \in S)
  IN <<header>> \o [k \in 1..Len(idx) |-> rows[idx[k]]]
\* What the other platform's sheet may hold: a row with the account's label, in
\* the window.
ProbeRowsVK == << ProbeRow("q1", "shopbrand", At(-1, 0), 32) >>
AggregateCalls ==
  {[fn |-> "aggregateAccountMetrics",
    account |-> ProbeAccount(dateFrom, dateTo),
    sheets |-> [n \in SheetNames |->
                  IF n = "Metrics TikTok" THEN ProbeSheet(MetricsHeader, ProbeRows, S)
                  ELSE ProbeSheet(MetricsHeader, ProbeRowsVK, T)],
    now |-> At(0, 0)] :
     dateFrom \in ProbeBounds, dateTo \in ProbeBounds,
     S \in SUBSET (1..Len(ProbeRows)), T \in SUBSET (1..Len(ProbeRowsVK))}
\* A Post Date cell or a window cell that holds text which is no date ('soon'),
\* entered by hand: the sheet of the account with such a row between an undated
\* row and a row in the window, and accounts with such a bound.
ProbeRowsSoon == <<
  [ProbeRow("s1", "shopbrand", At(0, 0), 1) EXCEPT !.postDate = NoDate],
  [ProbeRow("s2", "shopbrand", At(0, 0), 2) EXCEPT !.postDate = InvalidDate],
  ProbeRow("s3", "shopbrand", At(-1, 0), 4) >>
InvalidDateCalls ==
  {[fn |-> "aggregateAccountMetrics",
    account |-> ProbeAccount(dateFrom, dateTo),
    sheets |-> [n \in SheetNames |->
                  IF n = "Metrics TikTok" THEN ProbeSheet(MetricsHeader, ProbeRowsSoon, S)
                  ELSE <<MetricsHeader>>],
    now |-> At(0, 0)] :
     dateFrom \in {At(-2, 0), InvalidDate}, dateTo \in {At(0, 0), InvalidDate},
     S \in {{1, 3}, {1, 2, 3}, {2}}}
\* Labels and content URLs of stored rows, and tracked accounts, for the matcher.
ProbeLabels == {"BrandOfficial", "shopbrand", "Shop", "otherstore", "",
                "The ShopBrand store", "https://www.tiktok.com/@shopbrand"}
ProbeVideoUrls == {"", "https://www.tiktok.com/@ShopBrand/video/1",
                   "https://vkvideo.ru/@brandvk/video-1_2",
                   "https://www.youtube.com/@shopbrand/shorts/1",
                   "https://rutube.example/@shopbrand/1"}
ProbeTracked == {
  [platform |-> "tiktok", accountUrl |-> "https://www.tiktok.com/@shopbrand",
   accountName |-> "shopbrand"],
  [platform |-> "tiktok", accountUrl |-> "https://www.tiktok.com/@shopbrand",
   accountName |-> ""],
  [platform |-> "tiktok", accountUrl |-> "https://platform.example/@brandofficial",
   accountName |-> "Brand Official!"],
  [platform |-> "youtube", accountUrl |-> "https://www.youtube.com/channel/UC123",
   accountName |-> "ShopBrand Store"],
  [platform |-> "vk", accountUrl |-> "https://vkvideo.ru/@brandvk",
   accountName |-> ""],
  [platform |-> "tiktok", accountUrl |-> Undefined, accountName |-> ""]}
\* The scan loop skips a row with neither label nor content URL before matching.
MatchCalls ==
  {[fn |-> "isMatch", row |-> [account |-> label, videoUrl |-> videoUrl],
    account |-> account] :
     label \in ProbeLabels, videoUrl \in ProbeVideoUrls, account \in ProbeTracked}
    \ {c \in [fn : {"isMatch"}, row : [account : {""}, videoUrl : {""}],
               account : ProbeTracked] : TRUE}
\* Captions and titles as the scrape returns them.
ProbeTexts == {
  "", "Great product, buy now!", "Wow!! so nice", "buy now!",
  "Article: WB123456 #99999999", "#99999999 then Article: WB123456",
  "Article:  WB123456\n#99999999 (WB123456)",
  "sku: ab12 (zz99) ART-77 #sale #promo2024 WW200631 and 123456",
  "ww200631 new", "New WW200631!", "start now", "WB-5512 wb-5512 Wb-5512",
  "ABCDE1234 AB123 x_123456 1234567", "(abc) (abcd) #abc1 #abc12_",
  "www-12 WEWE-9a_ sku-7", "art. 12345", "WB123456", "12345 678901 ",
  Cyrillic("Artikul") \o ": WB123456 #99999999",
  Cyrillic("art. ") \o "213123 " \o Cyrillic("kod") \o ": ab1 sku 7",
  "x" \o Cyrillic("Artikul") \o "-12345 " \o Cyrillic("ARTIKUL") \o "-777",
  Cyrillic("ARTIKALJ") \o ":AB12 " \o Cyrillic("art") \o " 5 " \o Cyrillic("Kod") \o "\t77"}
ExtractCalls == {[fn |-> "extractArticle", text |-> text] : text \in ProbeTexts}
\* Dataset items of the TikTok scraper, by their caption.
ProbeItem(text, name, count) ==
  [text |-> text, authorMeta |-> [name |-> name], playCount |-> count,
   diggCount |-> JsNumber(3), commentCount |-> JsUndefined, shareCount |-> JsString("2")]
ProbeItems == {
  ProbeItem("Great product, buy now!", JsString("shopbrand"), JsNumber(10)),
  ProbeItem("Wow!! so nice", JsString("shopbrand"), JsNumber(10)),
  ProbeItem("Article: WB123456 #99999999", JsString("shopbrand"), JsNumber(1500)),
  ProbeItem("Article: WB123456 #99999999", JsString("shopmart"), JsString("1500")),
  ProbeItem("Article: WB123456 #99999999", JsString("shopbrand"), JsUndefined),
  ProbeItem("Article: WB123456 #99999999", JsString("shopbrand"), JsString("1.5K")),
  ProbeItem("Article: WB123456 #99999999", JsString("shopbrand"), JsString("n/a")),
  ProbeItem("Article: WB123456 #99999999", JsUndefined, JsNumber(-5)),
  ProbeItem("New WW200631!", JsString("sh"), JsString(" 42 views")),
  ProbeItem("New WW200631!", JsString("shopbrand"), JsString("0x10")),
  ProbeItem(Cyrillic("Kod") \o ": ab1 sku 7", JsString("shopbrand"), JsString("-0X1f"))}
ParseCalls ==
  {[fn |-> "parseTikTokAccount", items |-> items] :
     items \in {<<a>> : a \in ProbeItems} \cup {<<a, b>> : a, b \in ProbeItems}}
\* Account names and articles handed to generateMetricId.
ProbeNames == {"shopbrand", "shopmart", "Shop_Brand", "s.h.o.p", "sh", "a", "", "!!!", "x-1"}
ProbeArticles == {"WB204512", "WB123456, 99999999", "ART-77, WW200631, 123456",
                  "AB12,ZZ99", "WB1,  2", "A  B", "(ZZ99)"}
IdCalls ==
  {[fn |-> "generateMetricId", platform |-> platform, accountName |-> accountName,
    article |-> article] :
     platform \in {"tiktok", "vk"}, accountName \in ProbeNames, article \in ProbeArticles}
\* Tracked accounts by what their cells D, E and F hold, and the clock and
\* interval filterAccountsToCheck is applied with.
ProbeCells == {NoDate, InvalidDate, At(-1, 0), At(0, 0)}
ProbeDated(lastChecked, dateFrom, dateTo) ==
  [platform |-> "tiktok", accountUrl |-> "https://www.tiktok.com/@shopbrand",
   accountName |-> "shopbrand", lastChecked |-> lastChecked,
   dateFrom |-> dateFrom, dateTo |-> dateTo]
FilterCalls ==
  {[fn |-> "filterAccountsToCheck",
    accountList |-> <<ProbeDated(first, NoDate, NoDate), ProbeDated(second, NoDate, NoDate)>>,
    now |-> At(1, 0), intervalDays |-> intervalDays] :
     first \in ProbeCells, second \in ProbeCells,
     intervalDays \in {0, ConfiguredCheckIntervalDays}}
EffectiveDateCalls ==
  {[fn |-> "getEffectiveDate", account |-> ProbeDated(NoDate, dateFrom, dateTo),
    now |-> At(1, 5000)] : dateFrom \in ProbeCells, dateTo \in ProbeCells}
\* Date texts as the configuration or a request may give them.
ProbeDateStrings == {"", "30d", "30D", " 30d ", "30d\f", "\f0d", "0d", "30 days", "d",
                     "2024-01-01", "2023-12-30", "2024-02-30", "2024-13-01",
                     "0099-01-01", "2024-1-1", "soon", "100019723d", "100019724d",
                     "100019725d", "200000000d", "0000000030d", "99999999999d"}
\* Accounts sheets with URL cells left empty, and the URLs stamped in them.
ProbeUrlCells == {"https://www.tiktok.com/@shopbrand", "", Undefined}
ProbeAccountsRow(accountUrl) ==
  [platform |-> "tiktok", accountUrl |-> accountUrl, accountName |-> "shopbrand",
   lastChecked |-> NoDate, dateFrom |-> NoDate, dateTo |-> NoDate]
LastCheckedCalls ==
  {[fn |-> "updateLastChecked",
    accounts |-> <<AccountsHeader, ProbeAccountsRow(first), ProbeAccountsRow(second),
                   ProbeAccountsRow(third)>>,
    accountUrl |-> accountUrl] :
     first \in ProbeUrlCells, second \in ProbeUrlCells, third \in ProbeUrlCells,
     accountUrl \in ProbeUrlCells \cup {"https://www.tiktok.com/@newshop"}}
ParseDateCalls ==
  {[fn |-> "parseDate", dateString |-> dateString, now |-> clock] :
     dateString \in ProbeDateStrings, clock \in {At(0, 0), At(1, 5000)}}
Calls == AggregateCalls \cup InvalidDateCalls \cup MatchCalls \cup ExtractCalls
           \cup ParseCalls \cup IdCalls \cup FilterCalls \cup EffectiveDateCalls
           \cup ParseDateCalls \cup LastCheckedCalls

InitPure ==
  /\ Constructed
  /\ call \in Calls
  /\ ret = <<>>
applyAggregateAccountMetrics ==
  /\ call.fn = "aggregateAccountMetrics"
  /\ ret = <<>>
  /\ ret' = << aggregateAccountMetrics(
                 call.account, call.sheets[getSheetNameForPlatform(call.account.platform)],
                 call.now) >>
  /\ UNCHANGED <<accounts, metrics, facts, now, cyc, started, rejected, overlapped, call,
               globalMetrics, response,
                 checkIntervalDays, adding, elapsed>>
applyIsMatch ==
  /\ call.fn = "isMatch"
  /\ ret = <<>>
  /\ ret' = << isMatch(call.row, call.account) >>
  /\ UNCHANGED <<accounts, metrics, facts, now, cyc, started, rejected, overlapped, call,
               globalMetrics, response,
                 checkIntervalDays, adding, elapsed>>
applyExtractArticle ==
  /\ call.fn = "extractArticle"
  /\ ret = <<>>
  /\ ret' = << extractArticle(call.text) >>
  /\ UNCHANGED <<accounts, metrics, facts, now, cyc, started, rejected, overlapped, call,
                 globalMetrics, response,
                 checkIntervalDays, adding, elapsed>>
applyParseTikTokAccount ==
  /\ call.fn = "parseTikTokAccount"
  /\ ret = <<>>
  /\ ret' = << parseTikTokItems(call.items) >>
  /\ UNCHANGED <<accounts, metrics, facts, now, cyc, started, rejected, overlapped, call,
                 globalMetrics, response,
                 checkIntervalDays, adding, elapsed>>
applyGenerateMetricId ==
  /\ call.fn = "generateMetricId"
  /\ ret = <<>>
  /\ ret' = << generateMetricId(call.platform, call.accountName, call.article) >>
  /\ UNCHANGED <<accounts, metrics, facts, now, cyc, started, rejected, overlapped, call,
                 globalMetrics, response,
                 checkIntervalDays, adding, elapsed>>
applyFilterAccountsToCheck ==
  /\ call.fn = "filterAccountsToCheck"
  /\ ret = <<>>
  /\ ret' = << filterAccountsToCheck(call.accountList, call.now, call.intervalDays) >>
  /\ UNCHANGED <<accounts, metrics, facts, now, cyc, started, rejected, overlapped, call,
                 globalMetrics, response, checkIntervalDays, adding, elapsed>>
applyGetEffectiveDate ==
  /\ call.fn = "getEffectiveDate"
  /\ ret = <<>>
  /\ ret' = << [dateFrom |-> getEffectiveDateFrom(call.account, call.now),
                dateTo |-> getEffectiveDateTo(call.account, call.now)] >>
  /\ UNCHANGED <<accounts, metrics, facts, now, cyc, started, rejected, overlapped, call,
                 globalMetrics, response, checkIntervalDays, adding, elapsed>>
applyParseDate ==
  /\ call.fn = "parseDate"
  /\ ret = <<>>
  /\ ret' = << parseDate(call.dateString, call.now) >>
  /\ UNCHANGED <<accounts, metrics, facts, now, cyc, started, rejected, overlapped, call,
                 globalMetrics, response, checkIntervalDays, adding, elapsed>>
applyUpdateLastChecked ==
  /\ call.fn = "updateLastChecked"
  /\ ret = <<>>
  /\ ret' = << LastCheckedRow(call.accounts, call.accountUrl),
                updateLastChecked(call.accounts, call.accountUrl, At(0, 0)) >>
  /\ UNCHANGED <<accounts, metrics, facts, now, cyc, started, rejected, overlapped, call,
                 globalMetrics, response, checkIntervalDays, adding, elapsed>>
NextPure ==
  \/ applyAggregateAccountMetrics
  \/ applyIsMatch
  \/ applyExtractArticle
  \/ applyParseTikTokAccount
  \/ applyGenerateMetricId
  \/ applyFilterAccountsToCheck
  \/ applyGetEffectiveDate
  \/ applyParseDate
  \/ applyUpdateLastChecked
SpecPure == InitPure /\ [][NextPure]_vars


(***************************************************************************)
(* Properties.                                                             *)
(***************************************************************************)
\* The report entries of the invocations, and what their logs hold.
Entries == UNION {{cyc[w].report[k] : k \in 1..Len(cyc[w].report)} : w \in Workers}
Kinds(log) == [k \in 1..Len(log) |-> log[k].kind]
Has(log, kinds) == \E k \in 1..Len(log) : log[k].kind \in kinds
\* The step of processAccount an event belongs to.
Rank(kind) ==
  CASE kind \in {"fetched", "fetchFailed"} -> 1
    [] kind \in {"upserted", "upsertFailed"} -> 2
    [] kind \in {"stamped", "stampSkipped", "stampFailed"} -> 3
    [] kind \in {"aggregated", "aggregateSkipped", "aggregateFailed"} -> 4
    [] OTHER -> 5
\* Every fetched item of the entry has had its upsert attempted, in batch order.
UpsertsAttempted(e) ==
  /\ Len(e.log) >= Len(e.ids) + 1
  /\ \A i \in 1..Len(e.ids) : Rank(e.log[i + 1].kind) = 2 /\ e.log[i + 1].id = e.ids[i]
\* processAccount is over for entry k of invocation c.
Finished(c, k) == k < c.idx \/ c.pc = "done"
\* The rows of a platform sheet (below the header) that hold id.
RowsHolding(sheet, id) == {r \in 2..Len(sheet) : sheet[r].id = id}
\* The itemCount the window aggregation of the account reports over a sheet.
itemCount(account, sheet, clock) ==
  LET effective == [account EXCEPT !.dateFrom = getEffectiveDateFrom(account, clock),
                                   !.dateTo = getEffectiveDateTo(account, clock)]
      globalMetric == aggregateAccountMetrics(effective, sheet, clock)
  IN IF globalMetric = NoMetric THEN 0 ELSE globalMetric.videosCount
\* Invocation w takes the step in which its upsert write answers without error.
WriteAnswers(w) ==
  /\ cyc[w].pc = "write"
  /\ cyc'[w] # cyc[w]
  /\ rejected' = <<>>
\* Invocation w takes a step that logs an event of one of the kinds for its account.
Logs(w, kinds) ==
  /\ cyc[w].idx >= 1
  /\ cyc'[w] # cyc[w]
  /\ Len(cyc'[w].report) >= cyc[w].idx
  /\ LET before == IF Len(cyc[w].report) >= cyc[w].idx
                   THEN cyc[w].report[cyc[w].idx].log ELSE <<>>
         after == cyc'[w].report[cyc[w].idx].log
     IN Len(after) > Len(before) /\ after[Len(after)].kind \in kinds
\* An account is due by the calendar: never checked, or checked checkIntervalDays
\* days ago or longer.
DueByDays(account, clock, intervalDays) ==
  \/ ~IsDate(account.lastChecked)
  \/ DiffMs(clock, account.lastChecked) >= intervalDays * MsPerDay

\* C1: after sequential upserts without store errors, from header-only sheets, every
\* id is held by at most one row of its platform sheet, and every upserted id by
\* exactly one row.
C1_OneRowPerId ==
  (rejected = <<>> /\ ~overlapped) =>
    /\ \A n \in SheetNames : \A r \in 2..Len(metrics[n]) :
         Cardinality(RowsHolding(metrics[n], metrics[n][r].id)) <= 1
    /\ \A e \in Entries : \A k \in 1..Len(e.log) :
         e.log[k].kind = "upserted" =>
           \E n \in SheetNames : Cardinality(RowsHolding(metrics[n], e.log[k].id)) = 1

\* C2: upserting a record whose id is already stored updates in place: the platform
\* sheet keeps its number of rows and the account's window aggregation keeps its
\* itemCount.
C2_ReingestKeepsRowCount ==
  [][\A w \in Workers :
       (/\ ~overlapped
        /\ WriteAnswers(w)
        /\ RowsHolding(metrics[SheetOf(w)], cyc[w].videos[cyc[w].item].id) # {})
         => /\ Len(metrics'[SheetOf(w)]) = Len(metrics[SheetOf(w)])
            /\ itemCount(Account(w), metrics'[SheetOf(w)], now)
                 = itemCount(Account(w), metrics[SheetOf(w)], now)]_vars

\* C3: an upsert whose id is held by a stored row overwrites that very row and
\* leaves every other row unchanged; an upsert whose id no row holds changes the
\* sheet by one appended row only.
C3_UpsertFrame ==
  [][\A w \in Workers :
       (~overlapped /\ WriteAnswers(w)) =>
         LET n == SheetOf(w)
             metric == cyc[w].videos[cyc[w].item]
             holding == RowsHolding(metrics[n], metric.id)
         IN IF holding # {}
            THEN \E r \in holding :
                   metrics' = [metrics EXCEPT ![n] =
                                         [@ EXCEPT ![r] = MetricRow(metric, cyc[w].builtAt)]]
            ELSE metrics' = [metrics EXCEPT ![n] =
                               Append(@, MetricRow(metric, cyc[w].builtAt))]]_vars

\* C4: at most one collectMetrics invocation is executing at any time.
C4_OneCycleAtATime == Cardinality({w \in Workers : Running(w)}) <= 1

\* C5: the accounts a cycle processes are exactly the listed accounts that were
\* never checked or were checked checkIntervalDays days ago or longer.
C5_DueByDays ==
  \A w \in Workers :
    IsDate(cyc[w].filteredAt) =>
      cyc[w].accountsToCheck
        = SelectSeq(cyc[w].accountList, LAMBDA a : DueByDays(a, cyc[w].filteredAt, cyc[w].interval))

\* C6: for each account of a cycle the steps happen in the order fetch, upserts,
\* stamp of lastChecked, aggregation, fact write, each step once; the stamp and the
\* aggregation's read come only after every fetched item has had its upsert
\* attempted.
C6_StepsInOrder ==
  \A e \in Entries :
    /\ \A i, j \in 1..Len(e.log) :
         i < j => /\ Rank(e.log[i].kind) <= Rank(e.log[j].kind)
                  /\ Rank(e.log[i].kind) = Rank(e.log[j].kind) => Rank(e.log[i].kind) = 2
    /\ Len(e.log) >= 1 => Rank(e.log[1].kind) = 1
    /\ Has(e.log, {"stamped", "stampSkipped", "stampFailed", "aggregated",
                   "aggregateSkipped", "aggregateFailed", "factWritten", "factFailed"})
         => UpsertsAttempted(e)
C6_Witness ==
  \E e \in Entries :
    Kinds(e.log) = <<"fetched", "upserted", "upserted", "stamped", "aggregated",
                     "factWritten">>

\* C7: when the fetch fails for an account, that account returns zero processed
\* items, the cycle does not fail, and once the cycle is over every due account has
\* been processed, each of the others with its fetch and the upserts of its items.
C7_FetchFailureIsolated ==
  \A w \in Workers : \A k \in 1..Len(cyc[w].report) :
    Has(cyc[w].report[k].log, {"fetchFailed"}) =>
      /\ cyc[w].result # "failed"
      /\ cyc[w].report[k].fetched = 0
      /\ Finished(cyc[w], k) => cyc[w].report[k].returned = 0
      /\ cyc[w].pc = "done" =>
           /\ cyc[w].result = "completed"
           /\ Len(cyc[w].report) = Len(cyc[w].accountsToCheck)
           /\ \A j \in 1..Len(cyc[w].report) :
                LET e == cyc[w].report[j]
                IN /\ e.accountUrl = cyc[w].accountsToCheck[j].accountUrl
                   /\ Has(e.log, {"fetched", "fetchFailed"})
                   /\ UpsertsAttempted(e)
C7_Witness ==
  \E w \in Workers :
    /\ cyc[w].pc = "done" /\ cyc[w].result = "completed"
    /\ Len(cyc[w].report) = 2
    /\ Has(cyc[w].report[1].log, {"fetchFailed"})
    /\ cyc[w].report[1].returned = 0
    /\ Has(cyc[w].report[2].log, {"upserted"})
    /\ cyc[w].report[2].returned = 1

\* C8: when the store write of one item fails, the step leaves the sheets as they
\* are and goes to the next item (or, after the last item, to the stamp);
\* writeVideoMetrics does not fail, so processAccount returns the number of fetched
\* videos; and every fetched item of every processed account has its upsert
\* attempted, a failure in an earlier cycle notwithstanding.
C8_ItemFailureContained ==
  /\ [](\A w \in Workers : \A k \in 1..Len(cyc[w].report) :
          LET e == cyc[w].report[k]
          IN /\ Has(e.log, {"upsertFailed"}) =>
                  /\ cyc[w].result # "failed"
                  /\ Finished(cyc[w], k) => e.returned = e.fetched
             /\ Finished(cyc[w], k) /\ e.returned >= 0 => UpsertsAttempted(e))
  /\ [][\A w \in Workers :
          Logs(w, {"upsertFailed"}) =>
            /\ metrics' = metrics
            /\ IF cyc[w].item < Len(cyc[w].videos)
               THEN /\ cyc'[w].pc = "find"
                    /\ cyc'[w].item = cyc[w].item + 1
                    /\ cyc'[w].idx = cyc[w].idx
               ELSE cyc'[w].pc = "stamp" /\ cyc'[w].idx = cyc[w].idx]_vars
C8_Witness ==
  \E w \in Workers :
    /\ cyc[w].pc = "done"
    /\ \E k \in 1..Len(cyc[w].report) :
         LET e == cyc[w].report[k]
         IN /\ Len(e.ids) = 2
            /\ e.log[2] = Ev("upsertFailed", e.ids[1])
            /\ e.log[3] = Ev("upserted", e.ids[2])
            /\ e.returned = 2
            /\ \A n \in SheetNames : RowsHolding(metrics[n], e.ids[1]) = {}
            /\ \E n \in SheetNames : RowsHolding(metrics[n], e.ids[2]) # {}

\* C9: when the aggregation or the fact write fails for an account, the step leaves
\* the fact sheet and the platform sheets as they are, no fact is written for the
\* account in the cycle, processAccount still returns the number of fetched videos,
\* the cycle does not fail and every due account is processed.
C9_AggregationFailureContained ==
  /\ [](\A w \in Workers : \A k \in 1..Len(cyc[w].report) :
          LET e == cyc[w].report[k]
          IN Has(e.log, {"aggregateFailed", "factFailed"}) =>
               /\ ~Has(e.log, {"factWritten"})
               /\ cyc[w].result # "failed"
               /\ Finished(cyc[w], k) => e.returned = e.fetched
               /\ cyc[w].pc = "done" =>
                    /\ cyc[w].result = "completed"
                    /\ Len(cyc[w].report) = Len(cyc[w].accountsToCheck))
  /\ [][\A w \in Workers :
          Logs(w, {"aggregateFailed", "factFailed"}) =>
            facts' = facts /\ metrics' = metrics]_vars
C9_Witness ==
  \E w \in Workers :
    /\ cyc[w].pc = "done" /\ cyc[w].result = "completed"
    /\ Len(cyc[w].report) = 2
    /\ LET e == cyc[w].report[1]
       IN /\ Has(e.log, {"factFailed"})
          /\ e.fetched = 2 /\ e.returned = 2
          /\ \A i \in 1..2 : \E n \in SheetNames : RowsHolding(metrics[n], e.ids[i]) # {}
    /\ facts = <<FactsHeader>>
    /\ cyc[w].report[2].returned >= 0

\* C10: a collectMetrics invocation ends in failure exactly when its listing of the
\* tracked accounts was rejected; whatever else is rejected, it completes.
C10_FailsOnlyOnListing ==
  \A w \in Workers :
    /\ cyc[w].result = "failed" <=> cyc[w].listRejected
    /\ cyc[w].pc = "done" <=> cyc[w].result # "none"
    /\ (cyc[w].pc = "done" /\ ~cyc[w].listRejected) => cyc[w].result = "completed"
C10_Witness ==
  \E w \in Workers :
    /\ cyc[w].pc = "done" /\ cyc[w].result = "failed" /\ cyc[w].listRejected
    /\ rejected = <<"getAccountsToTrack">>


\* The identity of a fact at date granularity.
FactIdentity(row) == <<row.platform, row.accountUrl, row.dateFrom.day, row.dateTo.day>>

\* C11: after any sequence of fact writes, of the cycles and of
\* updateGlobalMetrics alike, the facts sheet holds at most one row per identity
\* (platform, accountUrl, dateFrom day, dateTo day).
C11_OneFactPerIdentity ==
  \A r, q \in 2..Len(facts) :
    FactIdentity(facts[r]) = FactIdentity(facts[q]) => r = q


\* A stored row lies in the window [d1, d2] by calendar day, whichever bound is
\* the earlier one.
InWindowByDay(row, d1, d2) ==
  /\ IsDate(row.postDate)
  /\ (IF d1.day <= d2.day THEN d1.day ELSE d2.day) <= row.postDate.day
  /\ row.postDate.day <= (IF d1.day <= d2.day THEN d2.day ELSE d1.day)
\* The rows of a platform sheet that match the account and lie in the window.
RowsInWindow(sheet, account, d1, d2) ==
  {r \in 2..Len(sheet) : isMatch(sheet[r], account) /\ InWindowByDay(sheet[r], d1, d2)}

\* C12: when no stored row both matches the account and lies in the window, the
\* aggregation yields none and the account is finished without a fact being
\* written; a fact that is looked up, written or stored has videosCount >= 1.
C12_NoFactWithoutItems ==
  /\ [](/\ \A w \in Workers :
             cyc[w].pc \in {"fact_read", "fact_write"} =>
               cyc[w].metric # NoMetric /\ cyc[w].metric.videosCount >= 1
        /\ \A r \in 2..Len(facts) : facts[r].videosCount >= 1)
  /\ [][\A w \in Workers :
          (/\ cyc[w].pc = "agg_read"
           /\ cyc'[w] # cyc[w]
           /\ rejected' = rejected
           /\ RowsInWindow(metrics[getSheetNameForPlatform(Account(w).platform)],
                           Account(w), cyc[w].window.dateFrom, cyc[w].window.dateTo) = {})
            => /\ facts' = facts
               /\ cyc'[w].pc \notin {"fact_read", "fact_write"}
               /\ cyc'[w].report[cyc[w].idx].returned = Len(cyc[w].videos)
               /\ ~Has(cyc'[w].report[cyc[w].idx].log, {"factWritten", "factFailed"})]_vars
C12_Witness ==
  /\ rejected = <<>>
  /\ Len(metrics["Metrics TikTok"]) = 2
  /\ metrics["Metrics TikTok"][2].id = V2.id
  /\ \A r \in 2..Len(facts) : facts[r].platform # "tiktok"
  /\ \E w \in Workers :
       /\ Len(cyc[w].report) >= 1
       /\ Kinds(cyc[w].report[1].log) = <<"fetched", "upserted", "stamped", "aggregated">>
       /\ cyc[w].report[1].returned = 1


\* The aggregate a call returned, and the platform sheet it was computed over.
Returned(fn) == call.fn = fn /\ ret # <<>>
CallSheet == call.sheets[getSheetNameForPlatform(call.account.platform)]
\* A probe row was added to the total of the metric.
Counted(metric, row) == metric # NoMetric /\ (metric.totalViews \div row.views) % 2 = 1

\* The bounds of the call are dates and every stored post date is a date or
\* empty: what the collector itself writes (safeToISOString) and parseDate gives.
WellDated ==
  /\ IsDate(call.account.dateFrom) /\ IsDate(call.account.dateTo)
  /\ \A r \in 2..Len(CallSheet) : CallSheet[r].postDate # InvalidDate

\* C13: with bounds and stored post dates that are dates, a row that matches the
\* account is counted exactly when its postDate lies between 00:00:00.000 of the day
\* of the earlier bound and 23:59:59.999 of the day of the later bound, whatever the
\* time of day of the bounds.
C13_WholeDayWindow ==
  (Returned("aggregateAccountMetrics") /\ WellDated) =>
    \A r \in 2..Len(CallSheet) :
      isMatch(CallSheet[r], call.account) =>
        (Counted(ret[1], CallSheet[r])
           <=> InWindowByDay(CallSheet[r], call.account.dateFrom, call.account.dateTo))
\* A bound with a time of day; the row at 23:59:59.999 of the later bound's day is
\* counted and the row of the next day is not.
C13_Witness ==
  /\ Returned("aggregateAccountMetrics")
  /\ call.account.dateFrom = At(-2, 40000)
  /\ call.account.dateTo = At(0, 40000)
  /\ Len(CallSheet) = 6
  /\ ret[1] # NoMetric
  /\ ret[1].videosCount = 2
  /\ Counted(ret[1], ProbeRows[3])
  /\ ~Counted(ret[1], ProbeRows[4])


\* C14: the aggregate of a window does not depend on the order of its bounds: the
\* sums, videosCount and the fact's identity are those of the window with the
\* bounds exchanged, and a reversed window returns like any other.
C14_BoundsCommute ==
  Returned("aggregateAccountMetrics") =>
    ret[1] = aggregateAccountMetrics(
               [call.account EXCEPT !.dateFrom = call.account.dateTo,
                                    !.dateTo = call.account.dateFrom],
               CallSheet, call.now)
C14_Witness ==
  /\ Returned("aggregateAccountMetrics")
  /\ call.account.dateFrom = At(0, 0)
  /\ call.account.dateTo = At(-2, 40000)
  /\ Len(CallSheet) = 6
  /\ ret[1] # NoMetric
  /\ ret[1].videosCount = 2
  /\ ret[1].dateFrom = At(-2, 0)
  /\ ret[1].dateTo = At(0, MsPerDay - 1)

\* C15: the totals of an aggregate are the sums of views, likes, comments and shares
\* over exactly the rows of the account's platform sheet that match the account and
\* lie in the window, and videosCount is the number of those rows; rows of another
\* platform's sheet do not contribute.  With bounds and stored post dates that are
\* dates, an aggregate is returned exactly when there is such a row.
C15_SumsOverPlatformRows ==
  Returned("aggregateAccountMetrics") =>
    LET rows == RowsInWindow(CallSheet, call.account,
                             call.account.dateFrom, call.account.dateTo)
    IN IF ret[1] = NoMetric THEN WellDated => rows = {}
       ELSE /\ rows # {}
            /\ ret[1].totalViews = SumOver([r \in rows |-> CallSheet[r].views], rows)
            /\ ret[1].totalLikes = SumOver([r \in rows |-> CallSheet[r].likes], rows)
            /\ ret[1].totalComments = SumOver([r \in rows |-> CallSheet[r].comments], rows)
            /\ ret[1].totalShares = SumOver([r \in rows |-> CallSheet[r].shares], rows)
            /\ ret[1].videosCount = Cardinality(rows)
\* The platform sheet holds a row of another account in the window, and the other
\* platform's sheet a row with the account's label in the window.
C15_Witness ==
  /\ Returned("aggregateAccountMetrics")
  /\ call.account.dateFrom = At(-2, 0)
  /\ call.account.dateTo = At(0, 0)
  /\ Len(CallSheet) = 6
  /\ Len(call.sheets["Metrics VK"]) = 2
  /\ isMatch(call.sheets["Metrics VK"][2], call.account)
  /\ ret[1] # NoMetric
  /\ ret[1].totalViews = 6
  /\ ret[1].videosCount = 2


\* The heuristics of the matcher in the words of their description; s contains t
\* without regard to case, and the username token of a content URL.
ContainsCI(s, t) == includes(toLowerCase(s), toLowerCase(t))
ContentToken(url) ==
  IF ContainsCI(url, "youtube.com") THEN ""
  ELSE IF ContainsCI(url, "tiktok.com/@") \/ ContainsCI(url, "vkvideo.ru/@")
       THEN toLowerCase(UsernameToken(url))
  ELSE ""
HeuristicA(label, account) == account.accountName # "" /\ label = account.accountName
HeuristicB(label, account) == label = account.accountUrl
HeuristicC(label, account) ==
  account.accountName # "" /\ ContainsCI(label, account.accountName)
HeuristicD(label, account) ==
  account.accountName # "" /\ ContainsCI(account.accountName, label)
HeuristicE(videoUrl, account) ==
  /\ UsernameToken(account.accountUrl) # ""
  /\ ContentToken(videoUrl) # ""
  /\ toLowerCase(UsernameToken(account.accountUrl)) = ContentToken(videoUrl)
HeuristicF(label, account) ==
  /\ UsernameToken(account.accountUrl) # ""
  /\ ContainsCI(label, UsernameToken(account.accountUrl))

\* C16: a stored row matches an account exactly when one of the heuristics holds:
\* label = display name; label = account URL; label contains the display name;
\* the display name contains the label; the account URL's username = the content
\* URL's username (TikTok and vkvideo content URLs only, never YouTube); the label
\* contains the account URL's username.  Label "BrandOfficial" matches account URL
\* "https://platform.example/@brandofficial".
C16_MatcherDisjunction ==
  Returned("isMatch") =>
    /\ ret[1] <=> \/ HeuristicA(call.row.account, call.account)
                  \/ HeuristicB(call.row.account, call.account)
                  \/ HeuristicC(call.row.account, call.account)
                  \/ HeuristicD(call.row.account, call.account)
                  \/ HeuristicE(call.row.videoUrl, call.account)
                  \/ HeuristicF(call.row.account, call.account)
    /\ (/\ call.row.account = "BrandOfficial"
        /\ call.account.accountUrl = "https://platform.example/@brandofficial")
         => ret[1]
C16_Witness ==
  /\ Returned("isMatch")
  /\ call.row = [account |-> "BrandOfficial", videoUrl |-> ""]
  /\ call.account.accountUrl = "https://platform.example/@brandofficial"
  /\ call.account.accountName = "Brand Official!"
  /\ ret[1]


\* A window bound: the account's own when present, else the global default.
OwnElseDefault(own, default, clock) == IF HasDate(own) THEN own ELSE parseDate(default, clock)
ResolvedWindow(account, clock) ==
  [dateFrom |-> OwnElseDefault(account.dateFrom, globalMetrics.dateFrom, clock),
   dateTo |-> OwnElseDefault(account.dateTo, globalMetrics.dateTo, clock)]
Resolvable(account, clock) ==
  IsDate(ResolvedWindow(account, clock).dateFrom)
    /\ IsDate(ResolvedWindow(account, clock).dateTo)
\* A bound is given nowhere: the account has none and the default is not read.
BoundAbsent(account, clock) ==
  ~HasDate(ResolvedWindow(account, clock).dateFrom)
    \/ ~HasDate(ResolvedWindow(account, clock).dateTo)

\* C17: an account is aggregated over the window whose bounds are its own where
\* present and the global default where absent, in the collection cycle and in
\* updateGlobalMetrics alike: the cycle's aggregation takes that window, resolved
\* at the clock of the step that calls it, and updateGlobalMetrics aggregates each
\* listed account with that window.
C17_OwnElseDefaultWindow ==
  /\ [][\A w \in Workers :
          (cyc'[w].pc = "agg_read" /\ cyc[w].pc # "agg_read")
            => cyc'[w].window
                 = ResolvedWindow(cyc'[w].accountsToCheck[cyc'[w].idx], now)]_vars
  /\ [][(response'.pc = "done" /\ response.pc # "done" /\ ~response'.failed) =>
          \A k \in 1..Len(response'.accountList) :
            LET account == response'.accountList[k]
            IN Resolvable(account, now) =>
                 \E j \in 1..Len(response'.windows) :
                   response'.windows[j] =
                     [accountUrl |-> account.accountUrl,
                      dateFrom |-> ResolvedWindow(account, now).dateFrom,
                      dateTo |-> ResolvedWindow(account, now).dateTo]]_vars

\* returns undefined, and parseTikTokAccount leaves out an item whose caption is
\* that text.
C19_NoArticleDropped ==
  /\ (Returned("extractArticle") /\ call.text = "Great product, buy now!")
       => ret[1] = NoArticle
  /\ Returned("parseTikTokAccount")
       => \A k \in 1..Len(ret[1]) : ret[1][k].title # "Great product, buy now!"

\* The codes of a returned article, split at ", ".
RECURSIVE Codes(_)
Codes(article) ==
  LET comma == IndexOfChar(article, ",")
  IN IF article = "" THEN <<>>
     ELSE IF comma = 0 THEN <<article>>
     ELSE <<SubSeq(article, 1, comma - 1)>> \o Codes(SubSeq(article, comma + 2, Len(article)))
\* What the pattern families find in a text, family after family, uppercased; a
\* hashtag counts when it holds a digit.
RECURSIVE FamilyMatches(_, _)
FamilyMatches(pattern, s) ==
  IF pattern > 6 THEN <<>>
  ELSE LET found == matchAll(pattern, s, 1)
           kept == IF pattern = 6 THEN SelectSeq(found, LAMBDA v : hasDigit(v)) ELSE found
       IN [k \in 1..Len(kept) |-> toUpperCase(kept[k])] \o FamilyMatches(pattern + 1, s)
FirstAt(values, v) ==
  CHOOSE k \in 1..Len(values) : values[k] = v /\ \A j \in 1..(k - 1) : values[j] # v

\* C20: extractArticle returns the codes found by all the pattern families, each in
\* upper case and once, joined with ", " in the order in which they were first
\* found; a text with "Article: WB123456" and "#99999999" gives both codes.
C20_UnionOnceInOrder ==
  Returned("extractArticle") =>
    LET found == FamilyMatches(1, cleanText(call.text))
        codes == Codes(ret[1])
    IN /\ {codes[k] : k \in 1..Len(codes)} = {found[k] : k \in 1..Len(found)}
       /\ \A j, k \in 1..Len(codes) : codes[j] = codes[k] => j = k
       /\ \A j, k \in 1..Len(codes) :
            j < k => FirstAt(found, codes[j]) < FirstAt(found, codes[k])
       /\ \A k \in 1..Len(codes) : toUpperCase(codes[k]) = codes[k]
       /\ ret[1] = join(codes, ", ")
       /\ (includes(cleanText(call.text), "Article: WB123456")
             /\ includes(cleanText(call.text), "#99999999"))
            => \E j, k \in 1..Len(codes) : codes[j] = "WB123456" /\ codes[k] = "99999999"


\* C21: extractArticle returns the same article for a text and for the same text
\* with its letters in lower case; a code of 2-4 letters and at least 4 digits
\* written in lower case is found and returned in upper case.
C21_CaseInsensitive ==
  Returned("extractArticle") => ret[1] = extractArticle(toLowerCase(call.text))

\* The account segment of a key: what stands between the hyphen behind the
\* platform and the next hyphen.
KeyRest(key, platform) == SubSeq(key, Len(platform) + 2, Len(key))
AccountSegment(key, platform) ==
  SubSeq(KeyRest(key, platform), 1, IndexOfChar(KeyRest(key, platform), "-") - 1)
AlnumCount(s) == Cardinality({i \in 1..Len(s) : InClass(CharAt(s, i), "alnum")})

\* C22: the account segment of a key of generateMetricId is 3 characters long: the
\* first 3 alphanumeric characters of the account name in upper case, or a
\* 3-character sentinel when the name has fewer than 3 alphanumeric characters.
C22_SegmentOfThree ==
  Returned("generateMetricId") =>
    /\ Len(AccountSegment(ret[1], call.platform)) = 3
    /\ AlnumCount(call.accountName) >= 3 =>
         AccountSegment(ret[1], call.platform)
           = toUpperCase(SubSeq(stripNonAlnum(call.accountName), 1, 3))

\* An article as extractArticle returns it: codes of letters, digits and hyphens,
\* joined with ", ".
IsCode(code) ==
  /\ code # ""
  /\ \A i \in 1..Len(code) : InClass(CharAt(code, i), "alnum") \/ CharAt(code, i) = "-"
WellFormed(article) ==
  /\ article # ""
  /\ join(Codes(article), ", ") = article
  /\ \A k \in 1..Len(Codes(article)) : IsCode(Codes(article)[k])

\* C23: the key generateMetricId returns is determined by platform, account name
\* and article alone, whatever the clock and the sheets hold; it is the platform,
\* the account segment and the article with each ", " replaced by one hyphen,
\* joined by hyphens; ("tiktok", "shopbrand", "WB204512") gives
\* "tiktok-SHO-WB204512".
C23_KeyOfInputs ==
  Returned("generateMetricId") =>
    /\ SubSeq(ret[1], 1, Len(call.platform) + 1) = call.platform \o "-"
    /\ WellFormed(call.article) =>
         ret[1] = call.platform \o "-" \o firstThree(call.accountName) \o "-"
                    \o join(Codes(call.article), "-")
    /\ (call.platform = "tiktok" /\ call.accountName = "shopbrand"
          /\ call.article = "WB204512") => ret[1] = "tiktok-SHO-WB204512"
C23_Witness ==
  /\ Returned("generateMetricId")
  /\ call.accountName = "Shop_Brand"
  /\ call.article = "ART-77, WW200631, 123456"
  /\ globalMetrics # DefaultWindow
  /\ ret[1] = "tiktok-SHO-ART-77-WW200631-123456"

\* Nothing failed and nothing was skipped for the entry.
Undisturbed(e) ==
  ~Has(e.log, {"fetchFailed", "upsertFailed", "stampFailed", "stampSkipped",
               "aggregateFailed", "aggregateSkipped", "factFailed"})

\* C24: once processAccount is over for a due account whose fetch completed (and
\* none of whose later calls failed), lastChecked has been stamped and after that
\* the window has been aggregated, in that same cycle, also when the fetch gave no
\* video.
C24_FetchedThenStampedAggregated ==
  \A w \in Workers : \A k \in 1..Len(cyc[w].report) :
    LET e == cyc[w].report[k]
    IN (Finished(cyc[w], k) /\ Has(e.log, {"fetched"}) /\ Undisturbed(e)) =>
         \E i, j \in 1..Len(e.log) :
           i < j /\ e.log[i].kind = "stamped" /\ e.log[j].kind = "aggregated"

\* The four counts of a normalized item.
CountsOf(result) == {result.views, result.likes, result.comments, result.shares}
\* The counter of a dataset item holds a number: a number, or digits only.
IsNumeric(value) ==
  \/ value.t = "number"
  \/ value.t = "string" /\ AllDigits(value.s)

\* C25: views, likes, comments and shares of every item the normalizer returns are
\* integers >= 0, and a counter that is missing or is no number gives 0.
C25_CountsNonNegative ==
  Returned("parseTikTokAccount") =>
    /\ \A k \in 1..Len(ret[1]) : \A count \in CountsOf(ret[1][k]) :
         count.t = "number" /\ count.n >= 0
    /\ \A k \in 1..Len(call.items) :
         (Len(ret[1]) = Len(call.items) /\ ~IsNumeric(call.items[k].playCount))
           => ret[1][k].views = JsNumber(0)

\* C26: when collectMetrics invocations overlap and the append of an item answers,
\* for an id that no row held when this invocation looked it up, the platform sheet
\* holds exactly one row for that id afterwards, however the lookups and appends of
\* the invocations interleave.
C26_OverlapKeepsOneRow ==
  [][\A w \in Workers :
       (overlapped /\ WriteAnswers(w) /\ cyc[w].existingRow = 0) =>
         Cardinality(RowsHolding(metrics'[SheetOf(w)], cyc[w].videos[cyc[w].item].id)) = 1]_vars

\* C27: when the fetch fails for a due account, the cycle does not stamp that
\* account's lastChecked, so the account is due again at the next cycle.
C27_FailedFetchNotStamped ==
  \A e \in Entries : Has(e.log, {"fetchFailed"}) => ~Has(e.log, {"stamped"})

\* C28: when the read of the id column failed during the upsert of an item whose id
\* a row of the sheet holds, the write step of that upsert appends nothing and
\* leaves the platform sheets as they are.
C28_FailedLookupAppendsNothing ==
  [][\A w \in Workers :
       (/\ ~overlapped
        /\ cyc[w].pc = "write"
        /\ cyc'[w] # cyc[w]
        /\ rejected' = rejected
        /\ \E k \in 1..Len(rejected) : rejected[k] = "findVideoRowById"
        /\ cyc[w].existingRow = 0
        /\ RowsHolding(metrics[SheetOf(w)], cyc[w].videos[cyc[w].item].id) # {})
         => metrics' = metrics]_vars

\* C29: the id of an item differs from the id any item of an account with another
\* name gets on the same platform, here for the same article.
C29_IdsApartByAccount ==
  Returned("generateMetricId") =>
    \A other \in ProbeNames \ {call.accountName} :
      generateMetricId(call.platform, other, call.article) # ret[1]

\* The rows of the facts sheet stored for the account and the window [d1, d2].
StoredFor(sheet, account, d1, d2) ==
  {r \in 2..Len(sheet) :
     /\ sheet[r].platform = account.platform
     /\ sheet[r].accountUrl = account.accountUrl
     /\ sheet[r].dateFrom.day = (IF d1.day <= d2.day THEN d1.day ELSE d2.day)
     /\ sheet[r].dateTo.day = (IF d1.day <= d2.day THEN d2.day ELSE d1.day)}
\* The aggregation that invocation w is awaiting yields null.
AggregatesNone(w) ==
  aggregateAccountMetrics(
    [Account(w) EXCEPT !.dateFrom = cyc[w].window.dateFrom, !.dateTo = cyc[w].window.dateTo],
    metrics[getSheetNameForPlatform(Account(w).platform)], now) = NoMetric

\* C30: when the aggregation of an account yields none while the facts sheet holds
\* a fact for the same platform, account and window, the facts sheet stays as it
\* is and no fact write is started; and no step ever removes a fact row or
\* replaces it by a row of another identity or without videos.
C30_NoneLeavesFact ==
  /\ [][\A w \in Workers :
          (/\ cyc[w].pc = "agg_read"
           /\ cyc'[w] # cyc[w]
           /\ rejected' = rejected
           /\ AggregatesNone(w)
           /\ StoredFor(facts, Account(w), cyc[w].window.dateFrom, cyc[w].window.dateTo) # {})
            => /\ facts' = facts
               /\ cyc'[w].pc \notin {"fact_read", "fact_write"}]_vars
  /\ [][/\ Len(facts') >= Len(facts)
        /\ \A r \in 2..Len(facts) :
             \/ facts'[r] = facts[r]
             \/ /\ FactIdentity(facts'[r]) = FactIdentity(facts[r])
                /\ facts'[r].videosCount >= 1]_vars
\* A fact of the TikTok account is stored for the window; an overlapping
\* invocation has since written its second video over the row of the only video in
\* the window, has stamped lastChecked, and awaits its aggregation, which finds no
\* row of the account in the window.
C30_Witness ==
  \E w \in Workers :
    /\ cyc[w].pc = "agg_read"
    /\ Kinds(cyc[w].report[cyc[w].idx].log) = <<"fetched", "upserted", "upserted", "stamped">>
    /\ AggregatesNone(w)
    /\ StoredFor(facts, Account(w), cyc[w].window.dateFrom, cyc[w].window.dateTo) # {}
    /\ \A r \in StoredFor(facts, Account(w), cyc[w].window.dateFrom, cyc[w].window.dateTo) :
         facts[r].videosCount = 1

====
